---- MODULE Spec2Model ----
(***************************************************************************)
(* Model of the ShaderToy GLSL preprocessor of shaderbg                    *)
(* (src/shadertoy/glsl_preprocessor.rs, src/shadertoy/glsl_utils.rs).      *)
(*                                                                         *)
(* Text is modelled as it is in the program: a string is a sequence of     *)
(* one-character strings, and every string operation of the source (trim,  *)
(* split_whitespace, strip_prefix, match_indices, the regular expressions  *)
(* of handle_define) is computed character by character.                   *)
(***************************************************************************)
EXTENDS Integers, Sequences, FiniteSets, TLC

VARIABLES
    raw,            \* the source text given to run when run starts from a text;
                    \* the argument `line` of an expand_macros running on its own
    pending,        \* the lines of source_no_comments.lines() not yet read
    loop_line,      \* the loop variable `line` of run's for loop: the line last read
    pc,             \* where run is: "text", "scan", then "ok", "err", "panic", "hung";
                    \* "expand" / "returned" for expand_macros on its own
    defines,        \* GlslPreprocessor::defines: name -> MacroDef
    if_stack,       \* GlslPreprocessor::if_stack: sequence of BranchState
    line_number,    \* GlslPreprocessor::line_number
    active_buffer,  \* run's local active_buffer
    output,         \* run's local output
    error,          \* the ShaderError run returns (message, line)
    expand_line,    \* the local current_line of an expand_macros running on its own
    nest,           \* history: one entry per conditional block open in the text,
                    \* TRUE when it was opened while the branch was inactive
    kept,           \* history: the non-directive lines read while the branch was
                    \* active, each with the macro mapping at that moment and
                    \* the last #define / #undef line in force before it
    prev_stack,     \* history: if_stack as it was when loop_line was read
    last_macro,     \* history: the last #define or #undef line read while the
                    \* branch was active (<<>> when there is none yet)
    result,         \* what a function running on its own returned (None before);
                    \* for strip_comments, what its successive calls returned
    tracker,        \* a GlslDepthTracker on its own, or depth_tracker of
                    \* GlslInitializer::modifications
    scan,           \* the other locals of GlslInitializer::modifications, with
                    \* struct_defs
    conv            \* a call of to_glsl_version: its arguments and the word its
                    \* renaming loop is at

vars == <<raw, pending, loop_line, pc, defines, if_stack, line_number, active_buffer,
          output, error, expand_line, nest, kept, prev_stack, last_macro, result, tracker, scan, conv>>

(***************************************************************************)
(* Characters and strings                                                  *)
(***************************************************************************)
None == "None"

\* no call of to_glsl_version
NoCall == [source |-> <<>>, version |-> <<0, 0>>, glsl_es |-> FALSE, word |-> 0]

\* modifications before its loop: i, state, expect_for_paren, the
\* modifications collected and the struct definitions
NewScan ==
    [i |-> 0, state |-> "Normal", expect_for_paren |-> FALSE,
     modifications |-> <<>>, struct_defs |-> [n \in {} |-> [members |-> <<>>]]]

\* GlslDepthTracker::default()
NewTracker ==
    [brace |-> 0, bracket |-> 0, paren |-> 0, for_loop_depth |-> 0, for_loop_part |-> 0]

\* the longest text an expansion is followed to
MaxText == 40

\* the longest source of Spec, in lines
MaxLines == 5
\* the number of pieces a source text of SpecText is made of, the #error line
\* that ends it apart
MaxPieces == 4
\* the number of tokens a buffer of SpecExpand is made of
MaxTokens == 4

\* the longest macro body of SpecParams, in characters
MaxBody == 4

\* the longest source text of SpecStrip, in characters
MaxSource == 5

\* the number of update_brackets calls of SpecTracker
MaxCalls == 4

\* the number of lines of a source of SpecInitializer
MaxDecls == 2

\* the number of lines of a source with conditionals of SpecVersion
MaxConditionals == 2

\* the largest literal of the three-operand expressions of SpecEval
MaxNumber == 2

\* the number of pieces a free-form expression of SpecEval is made of
MaxExprPieces == 3

\* the width the integers of #if expressions are modelled with (i64 in the source)
IntBits == 8

Digits == {"0", "1", "2", "3", "4", "5", "6", "7", "8", "9"}

Letters ==
    {"a", "b", "c", "d", "e", "f", "g", "h", "i", "j", "k", "l", "m",
     "n", "o", "p", "q", "r", "s", "t", "u", "v", "w", "x", "y", "z",
     "A", "B", "C", "D", "E", "F", "G", "H", "I", "J", "K", "L", "M",
     "N", "O", "P", "Q", "R", "S", "T", "U", "V", "W", "X", "Y", "Z"}

\* char::is_whitespace on the characters a shader source holds
IsWhitespace(c) == c \in {" ", "\t", "\n", "\r"}

\* is_identifier_character of expand_macros; also the class [a-zA-Z_0-9]
IsIdentifierCharacter(c) == c \in Letters \cup Digits \cup {"_"}

\* the class [a-zA-Z_]
IsIdentifierStart(c) == c \in Letters \cup {"_"}

\* s[a..b] as a string (empty when b < a)
Slice(s, a, b) == IF b < a THEN <<>> ELSE SubSeq(s, a, b)

\* s with its first n characters removed
Drop(s, n) == Slice(s, n + 1, Len(s))

StartsWith(s, p) == Len(p) <= Len(s) /\ SubSeq(s, 1, Len(p)) = p

\* str::strip_prefix(p).unwrap_or("")
StripPrefixOrEmpty(s, p) == IF StartsWith(s, p) THEN Drop(s, Len(p)) ELSE <<>>

\* the number of leading characters of s that satisfy is-whitespace
RECURSIVE LeadingWs(_)
LeadingWs(s) ==
    IF s # <<>> /\ IsWhitespace(Head(s)) THEN 1 + LeadingWs(Tail(s)) ELSE 0

RECURSIVE TrailingWs(_)
TrailingWs(s) ==
    IF s # <<>> /\ IsWhitespace(s[Len(s)])
    THEN 1 + TrailingWs(SubSeq(s, 1, Len(s) - 1))
    ELSE 0

TrimStart(s) == Drop(s, LeadingWs(s))

TrimEnd(s) == Slice(s, 1, Len(s) - TrailingWs(s))

Trim(s) == TrimEnd(TrimStart(s))

\* the number of leading characters of s that are not whitespace
RECURSIVE LeadingNonWs(_)
LeadingNonWs(s) ==
    IF s # <<>> /\ ~IsWhitespace(Head(s)) THEN 1 + LeadingNonWs(Tail(s)) ELSE 0

\* str::split_whitespace, collected
RECURSIVE SplitWhitespace(_)
SplitWhitespace(s) ==
    LET t == TrimStart(s)
        n == LeadingNonWs(t)
    IN  IF t = <<>> THEN <<>>
        ELSE <<SubSeq(t, 1, n)>> \o SplitWhitespace(Drop(t, n))

\* the concatenation of a sequence of strings
RECURSIVE Concat(_)
Concat(ss) == IF ss = <<>> THEN <<>> ELSE Head(ss) \o Concat(Tail(ss))

\* line + '\n' for every line
RECURSIVE JoinLines(_)
JoinLines(ls) ==
    IF ls = <<>> THEN <<>> ELSE Head(ls) \o <<"\n">> \o JoinLines(Tail(ls))

\* the number of characters before the first '\n' of s (Len(s) if none)
RECURSIVE LineLen(_)
LineLen(s) ==
    IF s = <<>> \/ Head(s) = "\n" THEN 0 ELSE 1 + LineLen(Tail(s))

\* a line of str::lines loses the '\r' that ends it
StripCr(l) ==
    IF l # <<>> /\ l[Len(l)] = "\r" THEN SubSeq(l, 1, Len(l) - 1) ELSE l

\* a split into lines that leaves the empty lines out
RECURSIVE NonEmptyLines(_)
NonEmptyLines(s) ==
    IF s = <<>> THEN <<>>
    ELSE (IF LineLen(s) = 0 THEN <<>> ELSE <<StripCr(SubSeq(s, 1, LineLen(s)))>>)
         \o NonEmptyLines(SubSeq(s, LineLen(s) + 2, Len(s)))

\* str::lines: the lines of s, a last line with no '\n' included
RECURSIVE Lines(_)
Lines(s) ==
    IF s = <<>> THEN <<>>
    ELSE <<StripCr(SubSeq(s, 1, LineLen(s)))>>
         \o Lines(SubSeq(s, LineLen(s) + 2, Len(s)))

(***************************************************************************)
(* Macro definitions and macro expansion                                   *)
(***************************************************************************)
\* struct MacroDef; params: Option<Vec<String>> is (is_func, params)
MacroDef(is_func, params, body) ==
    [is_func |-> is_func, params |-> params, body |-> body]

NoDefines == [n \in {} |-> MacroDef(FALSE, <<>>, <<>>)]

\* HashMap::insert
MapInsert(m, k, v) == [n \in DOMAIN m \cup {k} |-> IF n = k THEN v ELSE m[n]]

\* HashMap::remove
MapRemove(m, k) == [n \in DOMAIN m \ {k} |-> m[n]]

\* the orders in which a HashMap with these keys can be iterated
RECURSIVE IterationOrders(_)
IterationOrders(keys) ==
    IF keys = {} THEN {<<>>}
    ELSE UNION {{<<k>> \o o : o \in IterationOrders(keys \ {k})} : k \in keys}

\* str::match_indices: the byte offsets (0-based) of the non-overlapping
\* occurrences of needle in hay, searched from offset `from`
RECURSIVE MatchIndicesFrom(_, _, _)
MatchIndicesFrom(hay, needle, from) ==
    IF from + Len(needle) > Len(hay) THEN <<>>
    ELSE IF SubSeq(hay, from + 1, from + Len(needle)) = needle
         THEN <<from>> \o MatchIndicesFrom(hay, needle, from + Len(needle))
         ELSE MatchIndicesFrom(hay, needle, from + 1)

\* str::find in the place of match_indices: the first occurrence only
RECURSIVE FirstMatchIndex(_, _)
FirstMatchIndex(hay, needle) ==
    IF Len(needle) > Len(hay) THEN <<>>
    ELSE IF SubSeq(hay, 1, Len(needle)) = needle THEN <<0>>
    ELSE [k \in DOMAIN FirstMatchIndex(Tail(hay), needle) |->
             FirstMatchIndex(Tail(hay), needle)[k] + 1]

MatchIndices(hay, needle) == MatchIndicesFrom(hay, needle, 0)

\* Option<(usize, Vec<String>)>
NoArgs == [some |-> FALSE, end |-> 0, args |-> <<>>]

SomeArgs(end, args) == [some |-> TRUE, end |-> end, args |-> args]

\* parse_macro_args, the loop of the zero-parameter case: k is the offset of
\* the next character
RECURSIVE ParseNoArgsLoop(_, _)
ParseNoArgsLoop(line, k) ==
    IF k >= Len(line) THEN NoArgs
    ELSE IF line[k + 1] = ")" THEN SomeArgs(k + 1, <<>>)
    ELSE IF ~IsWhitespace(line[k + 1]) THEN NoArgs
    ELSE ParseNoArgsLoop(line, k + 1)

\* parse_macro_args, the general loop
RECURSIVE ParseArgsLoop(_, _, _, _, _, _)
ParseArgsLoop(line, k, paren_level, current_arg, args, arg_count) ==
    IF k >= Len(line) THEN NoArgs
    ELSE LET c == line[k + 1] IN
         IF c = ")" /\ paren_level = 1
         THEN LET all == Append(args, Trim(current_arg))
              IN  IF Len(all) = arg_count THEN SomeArgs(k + 1, all) ELSE NoArgs
         ELSE IF c = ")"
         THEN ParseArgsLoop(line, k + 1, paren_level - 1, Append(current_arg, c),
                            args, arg_count)
         ELSE IF c = "("
         THEN ParseArgsLoop(line, k + 1, paren_level + 1, Append(current_arg, c),
                            args, arg_count)
         ELSE IF c = "," /\ paren_level = 1
         THEN ParseArgsLoop(line, k + 1, paren_level, <<>>,
                            Append(args, Trim(current_arg)), arg_count)
         ELSE ParseArgsLoop(line, k + 1, paren_level, Append(current_arg, c),
                            args, arg_count)

\* parse_macro_args without its "Skip whitespace" loop
ParseMacroArgsNoSkip(line, start_offset, arg_count) ==
    IF start_offset >= Len(line) \/ line[start_offset + 1] # "(" THEN NoArgs
    ELSE IF arg_count = 0 THEN ParseNoArgsLoop(line, start_offset + 1)
    ELSE ParseArgsLoop(line, start_offset + 1, 1, <<>>, <<>>, arg_count)

\* parse_macro_args(line, start_offset, arg_count)
ParseMacroArgs(line, start_offset, arg_count) ==
    LET open == start_offset + LeadingWs(Drop(line, start_offset))
    IN  IF open >= Len(line) \/ line[open + 1] # "(" THEN NoArgs
        ELSE IF arg_count = 0 THEN ParseNoArgsLoop(line, open + 1)
        ELSE ParseArgsLoop(line, open + 1, 1, <<>>, <<>>, arg_count)

\* the regex assertion \b at offset i of s
WordBoundary(s, i) ==
    (i > 0 /\ IsIdentifierCharacter(s[i])) #
    (i < Len(s) /\ IsIdentifierCharacter(s[i + 1]))

\* sort_by_key(Reverse(len)): a stable sort, longest first
RECURSIVE InsertByLen(_, _)
InsertByLen(sorted, p) ==
    IF sorted = <<>> THEN <<p>>
    ELSE IF Len(Head(sorted)) >= Len(p)
         THEN <<Head(sorted)>> \o InsertByLen(Tail(sorted), p)
         ELSE <<p>> \o sorted

RECURSIVE SortedParams(_)
SortedParams(params) ==
    IF params = <<>> THEN <<>>
    ELSE InsertByLen(SortedParams(SubSeq(params, 1, Len(params) - 1)),
                     params[Len(params)])

\* the first alternative \bP\b of the pattern that matches at offset i, as an
\* index into alts (0 when none does)
RECURSIVE FirstAltAt(_, _, _, _)
FirstAltAt(body, alts, i, a) ==
    IF a > Len(alts) THEN 0
    ELSE LET p == alts[a] IN
         IF /\ i + Len(p) <= Len(body)
            /\ Slice(body, i + 1, i + Len(p)) = p
            /\ WordBoundary(body, i)
            /\ WordBoundary(body, i + Len(p))
         THEN a
         ELSE FirstAltAt(body, alts, i, a + 1)

\* params.iter().position(|p| p == matched), 1-based
RECURSIVE Position(_, _, _)
Position(params, matched, i) ==
    IF i > Len(params) THEN 0
    ELSE IF params[i] = matched THEN i
    ELSE Position(params, matched, i + 1)

\* Regex::replace_all of replace_params: i is the offset the search is at and
\* last_end the end of the previous match (-1 before the first)
RECURSIVE ReplaceAllFrom(_, _, _, _, _, _)
ReplaceAllFrom(body, alts, params, args, i, last_end) ==
    IF i > Len(body) THEN <<>>
    ELSE LET a == FirstAltAt(body, alts, i, 1)
             rest == IF i < Len(body) THEN <<body[i + 1]>> ELSE <<>>
         IN  IF a = 0 \/ (alts[a] = <<>> /\ i = last_end)
             THEN rest \o ReplaceAllFrom(body, alts, params, args, i + 1, last_end)
             ELSE LET e == i + Len(alts[a])
                      idx == Position(params, alts[a], 1)
                  IN  IF e = i
                      THEN args[idx] \o rest \o
                           ReplaceAllFrom(body, alts, params, args, i + 1, e)
                      ELSE args[idx] \o
                           ReplaceAllFrom(body, alts, params, args, e, e)

\* the parameters replaced one after the other, each over the whole result
\* of the previous replacement
RECURSIVE ReplaceOneByOne(_, _, _, _)
ReplaceOneByOne(body, params, args, i) ==
    IF i > Len(params) THEN body
    ELSE ReplaceOneByOne(ReplaceAllFrom(body, <<params[i]>>, <<params[i]>>,
                                        <<args[i]>>, 0, -1),
                         params, args, i + 1)

ReplaceParamsOneByOne(body, params, args) == ReplaceOneByOne(body, params, args, 1)

\* replace_params(body, params, args)
ReplaceParams(body, params, args) ==
    IF params = <<>> THEN body
    ELSE ReplaceAllFrom(body, SortedParams(params), params, args, 0, -1)

\* Option<(usize, usize, String)>
NoExpansion == [some |-> FALSE, start |-> 0, end |-> 0, text |-> <<>>]

SomeExpansion(start, end, text) ==
    [some |-> TRUE, start |-> start, end |-> end, text |-> text]

\* the candidate a function-like macro gives once its arguments are parsed (r)
FunctionLike(r, def, start_index, earliest) ==
    IF r.some
    THEN SomeExpansion(start_index, r.end, ReplaceParams(def.body, def.params, r.args))
    ELSE earliest

\* an expand_macros that skips no match
NotEarlierNever(earliest, start_index) == FALSE

\* the match at start_index is not earlier than the one found so far
NotEarlier(earliest, start_index) == earliest.some /\ start_index >= earliest.start

\* one iteration of the inner for loop of expand_macros: the match of `name`
\* at start_index, given the earliest expansion found so far
ConsiderMatch(current_line, defs, name, start_index, earliest) ==
    IF NotEarlier(earliest, start_index) THEN earliest
    ELSE LET end_index == start_index + Len(name)
             is_start_boundary ==
                 start_index = 0 \/ ~IsIdentifierCharacter(current_line[start_index])
             is_end_boundary ==
                 end_index = Len(current_line)
                 \/ ~IsIdentifierCharacter(current_line[end_index + 1])
             def == defs[name]
         IN  IF ~(is_start_boundary /\ is_end_boundary) THEN earliest
             ELSE IF def.is_func
             THEN FunctionLike(ParseMacroArgs(current_line, end_index,
                                              Len(def.params)),
                               def, start_index, earliest)
             ELSE SomeExpansion(start_index, end_index, def.body)

RECURSIVE ConsiderMatches(_, _, _, _, _)
ConsiderMatches(current_line, defs, name, indices, earliest) ==
    IF indices = <<>> THEN earliest
    ELSE ConsiderMatches(current_line, defs, name, Tail(indices),
             ConsiderMatch(current_line, defs, name, Head(indices), earliest))

\* the for loop over self.defines, iterated in `order`
RECURSIVE EarliestExpansion(_, _, _, _)
EarliestExpansion(current_line, defs, order, earliest) ==
    IF order = <<>> THEN earliest
    ELSE EarliestExpansion(current_line, defs, Tail(order),
             ConsiderMatches(current_line, defs, Head(order),
                             MatchIndices(current_line, Head(order)), earliest))

\* String::replace_range(start..end, replacement)
ReplaceRange(s, start, end, replacement) ==
    Slice(s, 1, start) \o replacement \o Drop(s, end)

\* expanded_in_pass set whether or not a candidate was found
ApplyEarliestAlways(e, current_line) ==
    [expanded_in_pass |-> TRUE,
     line |-> IF e.some THEN ReplaceRange(current_line, e.start, e.end, e.text)
              ELSE current_line]

\* "if we found a candidate, apply the earliest one"
ApplyEarliest(e, current_line) ==
    IF e.some
    THEN [expanded_in_pass |-> TRUE,
          line |-> ReplaceRange(current_line, e.start, e.end, e.text)]
    ELSE [expanded_in_pass |-> FALSE, line |-> current_line]

\* one pass of the loop of expand_macros
ExpandPass(current_line, defs, order) ==
    ApplyEarliest(EarliestExpansion(current_line, defs, order, NoExpansion),
                  current_line)

\* expand_macros: passes until one expands nothing. The loop has no exit of
\* its own otherwise, so a line that comes back (seen) or outgrows MaxText
\* never leaves it: hung.
RECURSIVE ExpandLoop(_, _, _, _)
AfterPass(p, current_line, defs, order, seen) ==
    IF ~p.expanded_in_pass THEN [hung |-> FALSE, line |-> current_line]
    ELSE IF p.line \in seen \cup {current_line} \/ Len(p.line) > MaxText
    THEN [hung |-> TRUE, line |-> p.line]
    ELSE ExpandLoop(p.line, defs, order, seen \cup {current_line})

ExpandLoop(current_line, defs, order, seen) ==
    AfterPass(ExpandPass(current_line, defs, order), current_line, defs, order, seen)

ExpandMacros(line, defs, order) == ExpandLoop(line, defs, order, {})

(***************************************************************************)
(* Integer expressions of #if and #elif                                    *)
(***************************************************************************)
RECURSIVE Pow2(_)
Pow2(n) == IF n = 0 THEN 1 ELSE 2 * Pow2(n - 1)

IntModulus == Pow2(IntBits)

IntMax == Pow2(IntBits - 1) - 1

IntMin == -Pow2(IntBits - 1)

\* the two's-complement value of x in IntBits bits
Wrap(x) == ((x + Pow2(IntBits - 1)) % IntModulus) - Pow2(IntBits - 1)

\* x as an unsigned IntBits-bit pattern
ToUnsigned(x) == x % IntModulus

\* a bitwise operator, bit by bit over n bits of the patterns a and b
RECURSIVE BitOp(_, _, _, _)
BitOp(op, a, b, n) ==
    IF n = 0 THEN 0
    ELSE LET x == a % 2
             y == b % 2
             bit == CASE op = "&" -> IF x = 1 /\ y = 1 THEN 1 ELSE 0
                      [] op = "|" -> IF x = 1 \/ y = 1 THEN 1 ELSE 0
                      [] OTHER -> IF x # y THEN 1 ELSE 0
         IN  bit + 2 * BitOp(op, a \div 2, b \div 2, n - 1)

Bitwise(op, a, b) == Wrap(BitOp(op, ToUnsigned(a), ToUnsigned(b), IntBits))

\* i64::wrapping_shl(right as u32): the shift amount is taken modulo the width
RECURSIVE ShlBits(_, _)
ShlBits(u, s) == IF s = 0 THEN u ELSE ShlBits((2 * u) % IntModulus, s - 1)

WrappingShl(left, right) == Wrap(ShlBits(ToUnsigned(left), right % IntBits))

\* i64::wrapping_shr: an arithmetic shift
WrappingShr(left, right) == left \div Pow2(right % IntBits)

Abs(x) == IF x < 0 THEN -x ELSE x

\* the quotient of Rust's integer division, which truncates towards zero
TruncDiv(a, b) ==
    IF (a < 0) = (b < 0) THEN Abs(a) \div Abs(b) ELSE -(Abs(a) \div Abs(b))

WrappingDiv(a, b) == Wrap(TruncDiv(a, b))

WrappingRem(a, b) == Wrap(a - b * TruncDiv(a, b))

\* enum Token
Token(kind, op, num) == [kind |-> kind, op |-> op, num |-> num]

TokNumber(n) == Token("Number", "", n)

TokOp(op) == Token("Op", op, 0)

TokLParen == Token("LParen", "", 0)

TokRParen == Token("RParen", "", 0)

HexDigits == Digits \cup {"a", "b", "c", "d", "e", "f", "A", "B", "C", "D", "E", "F"}

OctDigits == {"0", "1", "2", "3", "4", "5", "6", "7"}

DigitValue(c) ==
    CASE c = "0" -> 0 [] c = "1" -> 1 [] c = "2" -> 2 [] c = "3" -> 3
      [] c = "4" -> 4 [] c = "5" -> 5 [] c = "6" -> 6 [] c = "7" -> 7
      [] c = "8" -> 8 [] c = "9" -> 9
      [] c \in {"a", "A"} -> 10 [] c \in {"b", "B"} -> 11
      [] c \in {"c", "C"} -> 12 [] c \in {"d", "D"} -> 13
      [] c \in {"e", "E"} -> 14 [] c \in {"f", "F"} -> 15

\* the number of leading characters of s that are in class
RECURSIVE LeadingIn(_, _)
LeadingIn(s, class) ==
    IF s # <<>> /\ Head(s) \in class THEN 1 + LeadingIn(Tail(s), class) ELSE 0

\* i64::from_str_radix / str::parse: -1 when the value does not fit
RECURSIVE ParseRadix(_, _, _)
ParseRadix(digits, radix, acc) ==
    IF digits = <<>> THEN acc
    ELSE LET v == acc * radix + DigitValue(Head(digits))
         IN  IF v > IntMax THEN -1 ELSE ParseRadix(Tail(digits), radix, v)

\* Result<Vec<Token>, ()>
TokensErr == [ok |-> FALSE, tokens |-> <<>>]

\* tokenize: the number that starts at the head of s, then the rest
RECURSIVE TokenizeFrom(_, _)
TokenizeNumber(s, tokens) ==
    LET hex == Head(s) = "0" /\ Len(s) >= 2 /\ s[2] \in {"x", "X"}
        oct == Head(s) = "0" /\ Len(s) >= 2 /\ s[2] \in OctDigits
        n == IF hex THEN LeadingIn(Drop(s, 2), HexDigits)
             ELSE IF oct THEN LeadingIn(Drop(s, 1), OctDigits)
             ELSE LeadingIn(s, Digits)
        digits == IF hex THEN SubSeq(s, 3, 2 + n)
                  ELSE IF oct THEN SubSeq(s, 2, 1 + n)
                  ELSE SubSeq(s, 1, n)
        used == IF hex THEN 2 + n ELSE IF oct THEN 1 + n ELSE n
        num == ParseRadix(digits, IF hex THEN 16 ELSE IF oct THEN 8 ELSE 10, 0)
    IN  IF (hex /\ n = 0) \/ num < 0 THEN TokensErr
        ELSE TokenizeFrom(Drop(s, used), Append(tokens, TokNumber(num)))

\* tokenize: the while loop, s the characters not consumed yet
TokenizeFrom(s, tokens) ==
    IF s = <<>> THEN [ok |-> TRUE, tokens |-> tokens]
    ELSE LET c == Head(s)
             peek == IF Len(s) >= 2 THEN s[2] ELSE None
             One(op) == TokenizeFrom(Drop(s, 1), Append(tokens, TokOp(op)))
             Two(op) == TokenizeFrom(Drop(s, 2), Append(tokens, TokOp(op)))
         IN  CASE c = "(" -> TokenizeFrom(Drop(s, 1), Append(tokens, TokLParen))
               [] c = ")" -> TokenizeFrom(Drop(s, 1), Append(tokens, TokRParen))
               [] c \in Digits -> TokenizeNumber(s, tokens)
               [] c = "&" -> IF peek = "&" THEN Two("&&") ELSE One("&")
               [] c = "|" -> IF peek = "|" THEN Two("||") ELSE One("|")
               [] c = "<" -> IF peek = "<" THEN Two("<<")
                             ELSE IF peek = "=" THEN Two("<=") ELSE One("<")
               [] c = ">" -> IF peek = ">" THEN Two(">>")
                             ELSE IF peek = "=" THEN Two(">=") ELSE One(">")
               [] c = "=" -> IF peek = "=" THEN Two("==") ELSE TokensErr
               [] c = "!" -> IF peek = "=" THEN Two("!=") ELSE One("!")
               [] c \in {"+", "-", "*", "/", "%", "~"} -> One(c)
               [] c = "^" -> IF peek = "^" THEN Two("^^") ELSE One("^")
               [] OTHER -> TokensErr

Tokenize(expr) == TokenizeFrom(expr, <<>>)

\* the value a parse function returns and the index it leaves (0-based);
\* neg_overflow: the unary minus of parse_unary was applied to the minimum
\* integer, which panics in a build with overflow checks and wraps in one
\* without
Parsed(v, index, neg_overflow) ==
    [v |-> v, index |-> index, neg_overflow |-> neg_overflow]

Bool(b) == IF b THEN 1 ELSE 0

\* the binary levels in the order of C: bitwise-and below equality
LevelOpsOfC ==
    << {"||"}, {"&&"}, {"^^"}, {"|"}, {"^"}, {"&"}, {"==", "!="},
       {"<", "<=", ">", ">="}, {"<<", ">>"}, {"+", "-"}, {"*", "/", "%"} >>

\* The binary levels in the order the parse functions call one another:
\* parse_logical_or calls parse_logical_and, ..., parse_bitwise_xor calls
\* parse_equality, parse_equality calls parse_bitwise_and, ...,
\* parse_multiplicative calls parse_unary.
LevelOps ==
    << {"||"}, {"&&"}, {"^^"}, {"|"}, {"^"}, {"==", "!="}, {"&"},
       {"<", "<=", ">", ">="}, {"<<", ">>"}, {"+", "-"}, {"*", "/", "%"} >>

\* a division that gives the dividend when the divisor is 0
DivideOrLeft(left, right) == IF right = 0 THEN left ELSE WrappingDiv(left, right)

\* "/" of parse_multiplicative: 0 when the divisor is 0
DivideOrZero(left, right) == IF right = 0 THEN 0 ELSE WrappingDiv(left, right)

\* "%" of parse_multiplicative: 0 when the divisor is 0
RemainderOrZero(left, right) == IF right = 0 THEN 0 ELSE WrappingRem(left, right)

\* what each binary operator assigns to left
ApplyBinary(op, left, right) ==
    CASE op = "||" -> Bool(left # 0 \/ right # 0)
      [] op = "&&" -> Bool(left # 0 /\ right # 0)
      [] op = "^^" -> Bool((left # 0) # (right # 0))
      [] op \in {"|", "^", "&"} -> Bitwise(op, left, right)
      [] op = "==" -> Bool(left = right)
      [] op = "!=" -> Bool(left # right)
      [] op = "<" -> Bool(left < right)
      [] op = "<=" -> Bool(left <= right)
      [] op = ">" -> Bool(left > right)
      [] op = ">=" -> Bool(left >= right)
      [] op = "<<" -> WrappingShl(left, right)
      [] op = ">>" -> WrappingShr(left, right)
      [] op = "+" -> Wrap(left + right)
      [] op = "-" -> Wrap(left - right)
      [] op = "*" -> Wrap(left * right)
      [] op = "/" -> DivideOrZero(left, right)
      [] op = "%" -> RemainderOrZero(left, right)

RECURSIVE ParseLevel(_, _, _)
RECURSIVE ParseLoop(_, _, _)
RECURSIVE ParseUnary(_, _)
RECURSIVE ParsePrimary(_, _)

\* left = left op right, index left where right ended
Combine(op, left, right) ==
    Parsed(ApplyBinary(op, left.v, right.v), right.index,
           left.neg_overflow \/ right.neg_overflow)

\* the while loop of a binary level, left being the value parsed so far and
\* the index it left
ParseLoop(level, tokens, left) ==
    IF left.index < Len(tokens)
       /\ tokens[left.index + 1].kind = "Op"
       /\ tokens[left.index + 1].op \in LevelOps[level]
    THEN ParseLoop(level, tokens,
                   Combine(tokens[left.index + 1].op, left,
                           ParseLevel(level + 1, tokens, left.index + 1)))
    ELSE left

\* The function of a level parses an operand with the function of the next
\* level and then runs its own while loop; the function of the last level
\* calls parse_unary. So the function of `level` parses a unary expression and
\* then runs the loops of the last level up to its own, each on what the one
\* before left. Once every token is consumed no loop has anything to do.
RECURSIVE LoopsUpTo(_, _, _, _)
LoopsUpTo(l, level, tokens, left) ==
    IF l < level \/ left.index >= Len(tokens) THEN left
    ELSE LoopsUpTo(l - 1, level, tokens, ParseLoop(l, tokens, left))

ParseLevel(level, tokens, index) ==
    LoopsUpTo(Len(LevelOps), level, tokens, ParseUnary(tokens, index))

\* what parse_unary returns for the operator op applied to r
ApplyUnary(op, r) ==
    CASE op = "~" -> Parsed(-r.v - 1, r.index, r.neg_overflow)
      [] op = "!" -> Parsed(Bool(r.v = 0), r.index, r.neg_overflow)
      [] op = "-" -> Parsed(Wrap(-r.v), r.index, r.neg_overflow \/ r.v = IntMin)
      [] op = "+" -> r

\* parse_unary
ParseUnary(tokens, index) ==
    IF index >= Len(tokens) THEN Parsed(0, index, FALSE)
    ELSE IF tokens[index + 1].kind = "Op" /\ tokens[index + 1].op \in {"~", "!", "-", "+"}
    THEN ApplyUnary(tokens[index + 1].op, ParseUnary(tokens, index + 1))
    ELSE ParsePrimary(tokens, index)

\* parse_primary after the expression e in parentheses: the closing
\* parenthesis is consumed if it is there
CloseParen(tokens, e) ==
    IF e.index < Len(tokens) /\ tokens[e.index + 1].kind = "RParen"
    THEN Parsed(e.v, e.index + 1, e.neg_overflow)
    ELSE e

\* parse_primary
ParsePrimary(tokens, index) ==
    IF index >= Len(tokens) THEN Parsed(0, index, FALSE)
    ELSE IF tokens[index + 1].kind = "Number"
    THEN Parsed(tokens[index + 1].num, index + 1, FALSE)
    ELSE IF tokens[index + 1].kind = "LParen"
    THEN CloseParen(tokens, ParseLevel(1, tokens, index + 1))
    ELSE Parsed(0, index + 1, FALSE)

ParseExpression(tokens, index) == ParseLevel(1, tokens, index)

(***************************************************************************)
(* Directive lines                                                         *)
(***************************************************************************)
KwDefine == <<"d", "e", "f", "i", "n", "e">>

KwUndef == <<"u", "n", "d", "e", "f">>

KwIfdef == <<"i", "f", "d", "e", "f">>

KwIfndef == <<"i", "f", "n", "d", "e", "f">>

KwIf == <<"i", "f">>

KwElif == <<"e", "l", "i", "f">>

KwElse == <<"e", "l", "s", "e">>

KwEndif == <<"e", "n", "d", "i", "f">>

KwError == <<"e", "r", "r", "o", "r">>

KwDefined == <<"d", "e", "f", "i", "n", "e", "d">>

\* the directives run ignores
IgnoredDirectives == {<<"p", "r", "a", "g", "m", "a">>, <<"e", "x", "t", "e", "n", "s", "i", "o", "n">>,
                      <<"v", "e", "r", "s", "i", "o", "n">>, <<"l", "i", "n", "e">>}

\* Option<&str>
NoName == [some |-> FALSE, name |-> <<>>]

\* get_directive_name(line), for a trimmed line that starts with '#'
GetDirectiveName(line) ==
    LET parts == SplitWhitespace(TrimStart(Drop(line, 1)))
    IN  IF parts = <<>> THEN NoName ELSE [some |-> TRUE, name |-> Head(parts)]

\* trimmed_line.starts_with('#')
IsDirectiveLine(line) == StartsWith(Trim(line), <<"#">>)

\* the length of the identifier [a-zA-Z_][a-zA-Z_0-9]* at the head of s, 0 if none
IdentifierLen(s) ==
    IF s # <<>> /\ IsIdentifierStart(Head(s))
    THEN LeadingIn(s, Letters \cup Digits \cup {"_"})
    ELSE 0

\* the offset of the first c in s at or after offset from, or -1
RECURSIVE FindChar(_, _, _)
FindChar(s, c, from) ==
    IF from >= Len(s) THEN -1
    ELSE IF s[from + 1] = c THEN from
    ELSE FindChar(s, c, from + 1)

\* the common head  #\s*define\s+([a-zA-Z_][a-zA-Z_0-9]*)  of func_re and
\* obj_re, matched at offset p: the offsets of the name, or ok = FALSE
DefineHeadAt(line, p) ==
    LET q == p + 1 + LeadingWs(Drop(line, p + 1))
        r == q + Len(KwDefine)
        w == LeadingWs(Drop(line, r))
        n == IdentifierLen(Drop(line, r + w))
    IN  IF /\ p < Len(line)
           /\ line[p + 1] = "#"
           /\ StartsWith(Drop(line, q), KwDefine)
           /\ w >= 1
           /\ n >= 1
        THEN [ok |-> TRUE, name_start |-> r + w, name_end |-> r + w + n]
        ELSE [ok |-> FALSE, name_start |-> 0, name_end |-> 0]

\* Regex::captures: the leftmost offset at which func_re matches, or -1
RECURSIVE FuncReAt(_, _)
FuncReAt(line, p) ==
    IF p >= Len(line) THEN -1
    ELSE LET h == DefineHeadAt(line, p)
         IN  IF /\ h.ok
                /\ h.name_end < Len(line)
                /\ line[h.name_end + 1] = "("
                /\ FindChar(line, ")", h.name_end + 1) >= 0
             THEN p
             ELSE FuncReAt(line, p + 1)

\* the leftmost offset at which obj_re matches, or -1
RECURSIVE ObjReAt(_, _)
ObjReAt(line, p) ==
    IF p >= Len(line) THEN -1
    ELSE IF DefineHeadAt(line, p).ok THEN p
    ELSE ObjReAt(line, p + 1)

\* str::split(','), every part trimmed
RECURSIVE SplitCommaTrim(_)
SplitCommaTrim(s) ==
    LET c == FindChar(s, ",", 0)
    IN  IF c < 0 THEN <<Trim(s)>>
        ELSE <<Trim(Slice(s, 1, c))>> \o SplitCommaTrim(Drop(s, c + 1))

\* handle_define: the macro mapping after a #define line
HandleDefine(defs, line) ==
    LET f == FuncReAt(line, 0)
        o == ObjReAt(line, 0)
    IN  IF f >= 0
        THEN LET h == DefineHeadAt(line, f)
                 close == FindChar(line, ")", h.name_end + 1)
                 params_str == Slice(line, h.name_end + 2, close)
                 params == IF params_str = <<>> THEN <<>>
                           ELSE SplitCommaTrim(params_str)
             IN  MapInsert(defs, Slice(line, h.name_start + 1, h.name_end),
                           MacroDef(TRUE, params, Trim(Drop(line, close + 1))))
        ELSE IF o >= 0
        THEN LET h == DefineHeadAt(line, o)
             IN  MapInsert(defs, Slice(line, h.name_start + 1, h.name_end),
                           MacroDef(FALSE, <<>>, Trim(Drop(line, h.name_end))))
        ELSE defs

\* handle_undef: the macro mapping after an #undef line
HandleUndef(defs, line) ==
    LET parts == SplitWhitespace(TrimStart(Drop(line, 1)))
    IN  IF Len(parts) >= 2 /\ parts[1] = KwUndef
        THEN MapRemove(defs, parts[2])
        ELSE defs

\* is_active
IsActive(stack) == stack = <<>> \/ stack[Len(stack)] = "Active"

\* handle_ifdef / handle_ifndef: the stack after the line; want is whether the
\* name has to be defined (ifdef) or not (ifndef), kw the keyword compared
HandleIfdefLike(stack, defs, line, kw, want) ==
    LET parts == SplitWhitespace(TrimStart(Drop(line, 1)))
    IN  IF Len(parts) >= 2 /\ parts[1] = kw
        THEN IF IsActive(stack)
             THEN IF (parts[2] \in DOMAIN defs) = want
                  THEN Append(stack, "Active")
                  ELSE Append(stack, "Searching")
             ELSE Append(stack, "Done")
        ELSE stack

HandleIfdef(stack, defs, line) == HandleIfdefLike(stack, defs, line, KwIfdef, TRUE)

HandleIfndef(stack, defs, line) == HandleIfdefLike(stack, defs, line, KwIfndef, FALSE)

\* the match of  defined\s*\(\s*NAME\s*\)|defined\s+NAME  at offset i
DefinedAt(expr, i) ==
    LET a == i + Len(KwDefined)
        w == LeadingWs(Drop(expr, a))
        c == a + w + 1 + LeadingWs(Drop(expr, a + w + 1))
        n1 == IdentifierLen(Drop(expr, c))
        e == c + n1 + LeadingWs(Drop(expr, c + n1))
        n2 == IdentifierLen(Drop(expr, a + w))
    IN  IF ~StartsWith(Drop(expr, i), KwDefined)
        THEN [ok |-> FALSE, end |-> 0, name |-> <<>>]
        ELSE IF /\ a + w < Len(expr)
                /\ expr[a + w + 1] = "("
                /\ n1 >= 1
                /\ e < Len(expr)
                /\ expr[e + 1] = ")"
        THEN [ok |-> TRUE, end |-> e + 1, name |-> Slice(expr, c + 1, c + n1)]
        ELSE IF w >= 1 /\ n2 >= 1
        THEN [ok |-> TRUE, end |-> a + w + n2,
              name |-> Slice(expr, a + w + 1, a + w + n2)]
        ELSE [ok |-> FALSE, end |-> 0, name |-> <<>>]

\* defined_re.replace_all: every defined(NAME) becomes "1" or "0"
RECURSIVE ReplaceDefined(_, _, _)
ReplaceDefined(expr, defs, i) ==
    IF i >= Len(expr) THEN <<>>
    ELSE LET m == DefinedAt(expr, i)
         IN  IF m.ok
             THEN <<IF m.name \in DOMAIN defs THEN "1" ELSE "0">>
                  \o ReplaceDefined(expr, defs, m.end)
             ELSE <<expr[i + 1]>> \o ReplaceDefined(expr, defs, i + 1)

\* str::replace(char::is_whitespace, "")
RECURSIVE RemoveWhitespace(_)
RemoveWhitespace(s) ==
    IF s = <<>> THEN <<>>
    ELSE IF IsWhitespace(Head(s)) THEN RemoveWhitespace(Tail(s))
    ELSE <<Head(s)>> \o RemoveWhitespace(Tail(s))

\* what evaluate_if_expr returns: hung when its expand_macros does not return,
\* else value; parsed is the integer parse_expression returned (0 when it was
\* not called), neg_overflow whether the evaluation negated the minimum
\* integer
Evaluated(hung, value, parsed, neg_overflow) ==
    [hung |-> hung, value |-> value, parsed |-> parsed, neg_overflow |-> neg_overflow]

\* index == tokens.len() && result != 0
ParsesTrue(tokens, r) ==
    Evaluated(FALSE, r.index = Len(tokens) /\ r.v # 0, r.v, r.neg_overflow)

\* the early returns of evaluate_if_expr: Err(_) and tokens.is_empty()
TokensTrue(t) ==
    IF t.ok /\ t.tokens # <<>>
    THEN ParsesTrue(t.tokens, ParseExpression(t.tokens, 0))
    ELSE Evaluated(FALSE, FALSE, 0, FALSE)

ExpandedTrue(x) ==
    IF x.hung THEN Evaluated(TRUE, FALSE, 0, FALSE)
    ELSE TokensTrue(Tokenize(RemoveWhitespace(x.line)))

EvaluateIfExpr(expr, defs, order) ==
    ExpandedTrue(ExpandMacros(ReplaceDefined(expr, defs, 0), defs, order))

\* the condition text of an #if / #elif line
ConditionStr(line, kw) == Trim(StripPrefixOrEmpty(TrimStart(Drop(line, 1)), kw))

\* handle_elif: the new top of the stack
ElifTransition(top, condition_is_true) ==
    IF top = "Searching" /\ condition_is_true THEN "Active"
    ELSE IF top = "Active" THEN "Done"
    ELSE top

\* a handle_else that makes the branch of every #else active unless the
\* group is in its active branch
ElseTransitionToggle(top) == IF top = "Active" THEN "Done" ELSE "Active"

\* handle_else: the new top of the stack
ElseTransition(top) ==
    CASE top = "Searching" -> "Active"
      [] top = "Active" -> "Done"
      [] top = "Done" -> "Done"

\* *top = state
SetTop(stack, state) == [stack EXCEPT ![Len(stack)] = state]

\* handle_endif: Vec::pop
HandleEndif(stack) == Slice(stack, 1, Len(stack) - 1)

\* the outcome of handle_error: the message, or a panic when the slice
\* error_message[1..len - 1] is taken with len = 1
HandleError(line) ==
    LET error_message == ConditionStr(line, KwError)
        n == Len(error_message)
    IN  IF error_message = <<>>
        THEN [panic |-> FALSE, message |-> <<"E", "r", "r", "o", "r", " ", "d", "i", "r", "e", "c", "t", "i", "v", "e", " ", "e", "n", "c", "o", "u", "n", "t", "e", "r", "e", "d">>]
        ELSE IF \/ Head(error_message) = "\"" /\ error_message[n] = "\""
                \/ Head(error_message) = "'" /\ error_message[n] = "'"
        THEN IF 1 > n - 1
             THEN [panic |-> TRUE, message |-> <<>>]
             ELSE [panic |-> FALSE, message |-> Slice(error_message, 2, n - 1)]
        ELSE [panic |-> FALSE, message |-> error_message]

\* format!("Unknown directive ({directive})")
UnknownDirectiveMessage(directive) ==
    <<"U", "n", "k", "n", "o", "w", "n", " ", "d", "i", "r", "e", "c", "t", "i", "v", "e", " ", "(">> \o directive \o <<")">>

(***************************************************************************)
(* The text of the source before the loop of run                           *)
(***************************************************************************)
\* str::replace: every non-overlapping occurrence of from, left to right
RECURSIVE Replace(_, _, _)
Replace(s, from, to) ==
    IF s = <<>> THEN <<>>
    ELSE IF StartsWith(s, from) THEN to \o Replace(Drop(s, Len(from)), from, to)
    ELSE <<Head(s)>> \o Replace(Tail(s), from, to)

\* CR+LF to LF, LF+CR to LF, remaining CR to LF
NormalizeLineEndings(source) ==
    Replace(Replace(Replace(source, <<"\r", "\n">>, <<"\n">>),
                    <<"\n", "\r">>, <<"\n">>),
            <<"\r">>, <<"\n">>)

\* "Splice lines"
SpliceLines(source) == Replace(source, <<"\\", "\n">>, <<>>)

\* str::contains
Contains(s, p) == \E i \in 1..(Len(s) - Len(p) + 1) : SubSeq(s, i, i + Len(p) - 1) = p

\* a quote that opens no string literal
StartsStringNever(state, c) == FALSE

\* "Start of a string literal"
StartsString(state, c) == state = "Outside" /\ c = "\""

\* a line comment that ends without its newline being pushed
EndOfLineCommentDropped(c) == <<>>

\* "End of line comment": what is pushed for the newline c
EndOfLineComment(c) == <<c>>

\* a comment replaced by its first character
CommentStartPushesChar(c) == <<c>>

\* "Start of line comment", "Start of block comment": what is pushed for the
\* comment that starts with c
CommentStart(c) == <<" ">>

\* an escape sequence of which only the backslash is pushed
EscapeSequenceCut(s) == <<s[1]>>

\* "Handle escape sequences in strings": what is pushed for s, which starts
\* with a backslash
EscapeSequence(s) == Slice(s, 1, IF Len(s) >= 2 THEN 2 ELSE 1)

\* the while loop of strip_comments: what is pushed to output for the
\* characters s still to read, in the state `state`
RECURSIVE StripLoop(_, _)
StripLoop(s, state) ==
    IF s = <<>> THEN <<>>
    ELSE IF StartsString(state, s[1])
    THEN <<s[1]>> \o StripLoop(Tail(s), "InString")
    ELSE IF state = "Outside" /\ s[1] = "/" /\ Len(s) >= 2 /\ s[2] = "/"
    THEN CommentStart(s[1]) \o StripLoop(Drop(s, 2), "InLineComment")
    ELSE IF state = "Outside" /\ s[1] = "/" /\ Len(s) >= 2 /\ s[2] = "*"
    THEN CommentStart(s[1]) \o StripLoop(Drop(s, 2), "InBlockComment")
    ELSE IF state = "Outside"
    THEN <<s[1]>> \o StripLoop(Tail(s), "Outside")
    ELSE IF state = "InString" /\ s[1] = "\\"
    THEN EscapeSequence(s) \o StripLoop(Drop(s, 2), "InString")
    ELSE IF state = "InString" /\ s[1] = "\""
    THEN <<s[1]>> \o StripLoop(Tail(s), "Outside")
    ELSE IF state = "InString"
    THEN <<s[1]>> \o StripLoop(Tail(s), "InString")
    ELSE IF state = "InLineComment" /\ s[1] = "\n"
    THEN EndOfLineComment(s[1]) \o StripLoop(Tail(s), "Outside")
    ELSE IF state = "InBlockComment" /\ s[1] = "*" /\ Len(s) >= 2 /\ s[2] = "/"
    THEN StripLoop(Drop(s, 2), "Outside")
    ELSE StripLoop(Tail(s), state)

\* strip_comments, with its fast path
StripComments(source) ==
    IF ~Contains(source, <<"/", "/">>) /\ ~Contains(source, <<"/", "*">>)
    THEN source
    ELSE StripLoop(source, "Outside")

\* the lines the for loop of run goes through
SourceLines(source) ==
    Lines(StripComments(SpliceLines(NormalizeLineEndings(source))))

(***************************************************************************)
(* run: one action per arm of the for loop                                 *)
(***************************************************************************)
\* the lines the sources of Spec are made of
LineSet ==
    { <<"A">>,
      <<"x">>,
      <<"#", "d", "e", "f", "i", "n", "e", " ", "A", " ", "1">>,
      <<"#", "d", "e", "f", "i", "n", "e", " ", "A", " ", "x">>,
      <<"#", "u", "n", "d", "e", "f", " ", "A">>,
      <<"#", "i", "f", "d", "e", "f", " ", "A">>,
      <<"#", "i", "f", "d", "e", "f">>,
      <<"#", "i", "f", "n", "d", "e", "f", " ", "A">>,
      <<"#", "i", "f", " ", "A">>,
      <<"#", "e", "l", "i", "f", " ", "A">>,
      <<"#", "e", "l", "s", "e">>,
      <<" ", " ", "#", " ", "e", "n", "d", "i", "f">>,
      <<"#", "p", "r", "a", "g", "m", "a">>,
      <<"#">>,
      <<"#", "e", "r", "r", "o", "r", " ", "\"", "A", "\"">>,
      <<"#", "e", "r", "r", "o", "r", " ", "\"">>,
      <<"#", "e", "r", "r", "o", "r">>,
      <<"#", "f", "o", "o">> }

NoError == [message |-> <<>>, line |-> 0]

\* GlslPreprocessor::new and the head of run
Init ==
    /\ raw = <<>>
    /\ pending = <<>>
    /\ loop_line = <<>>
    /\ pc = "scan"
    /\ defines = NoDefines
    /\ if_stack = <<>>
    /\ line_number = 0
    /\ active_buffer = <<>>
    /\ output = <<>>
    /\ error = NoError
    /\ expand_line = <<>>
    /\ nest = <<>>
    /\ kept = <<>>
    /\ prev_stack = <<>>
    /\ last_macro = <<>>
    /\ result = None
    /\ tracker = NewTracker
    /\ scan = NewScan
    /\ conv = NoCall

\* the for loop takes the line l
ReadLine(l) ==
    /\ pc = "scan"
    /\ loop_line' = l
    /\ line_number' = line_number + 1
    /\ prev_stack' = if_stack
    /\ UNCHANGED <<raw, expand_line, result, tracker, scan, conv>>

\* l is a directive line whose name is `name`
HasDirective(l, name) ==
    /\ IsDirectiveLine(l)
    /\ GetDirectiveName(Trim(l)) = [some |-> TRUE, name |-> name]

\* a flush that leaves the expanded lines in the buffer
FlushedKeepingBuffer(x) ==
    [hung |-> x.hung, output |-> output \o x.line, buffer |-> active_buffer]

\* "Expand buffer before processing any directive"
Flushed(x) == [hung |-> x.hung, output |-> output \o x.line, buffer |-> <<>>]

\* a run that does not expand the buffer before a directive
FlushNothing(order) == [hung |-> FALSE, output |-> output, buffer |-> active_buffer]

Flush(order) ==
    IF IsActive(if_stack) /\ active_buffer # <<>>
    THEN Flushed(ExpandMacros(active_buffer, defines, order))
    ELSE [hung |-> FALSE, output |-> output, buffer |-> active_buffer]

\* run never returns: an expand_macros it called loops for ever
Hang ==
    /\ pc' = "hung"
    /\ UNCHANGED <<defines, if_stack, active_buffer, output, error>>

\* the loop goes on after a directive, with the flush f done before it
Continue(f, defs, stack) ==
    /\ pc' = "scan"
    /\ defines' = defs
    /\ if_stack' = stack
    /\ active_buffer' = f.buffer
    /\ output' = f.output
    /\ error' = error

\* run returns Err(ShaderPreprocess(message, self.line_number))
Fail(f, message) ==
    /\ pc' = "err"
    /\ error' = [message |-> message, line |-> line_number + 1]
    /\ active_buffer' = f.buffer
    /\ output' = f.output
    /\ UNCHANGED <<defines, if_stack>>

\* a run that accumulates the lines of an inactive branch as well
BufferedAlways(stack, buffer, l) == buffer \o l \o <<"\n">>

\* "Accumulate the line (with a newline) for later expansion"
Buffered(stack, buffer, l) ==
    IF IsActive(stack) THEN buffer \o l \o <<"\n">> ELSE buffer

\* a regular code line
RunCodeLine(l) ==
    /\ ReadLine(l)
    /\ ~IsDirectiveLine(l)
    /\ active_buffer' = Buffered(if_stack, active_buffer, l)
    /\ kept' = IF IsActive(if_stack)
               THEN Append(kept, [line |-> l, defines |-> defines,
                                  after |-> last_macro])
               ELSE kept
    /\ UNCHANGED <<pc, defines, if_stack, output, error, nest, last_macro>>

\* what follows the flush f of a directive that cannot fail
AfterDirective(f, defs, stack) ==
    IF f.hung THEN Hang ELSE Continue(f, defs, stack)

\* a "define" arm that does not look at is_active()
DefineAlways(stack, defs, l) == HandleDefine(defs, l)

\* the arm "define" of the match: handle_define only if is_active()
DefineArm(stack, defs, l) == IF IsActive(stack) THEN HandleDefine(defs, l) ELSE defs

\* the arm "undef" of the match: handle_undef only if is_active()
UndefArm(stack, defs, l) == IF IsActive(stack) THEN HandleUndef(defs, l) ELSE defs

\* "define"
RunDefine(l) ==
    /\ ReadLine(l)
    /\ HasDirective(l, KwDefine)
    /\ \E order \in IterationOrders(DOMAIN defines) :
          AfterDirective(Flush(order), DefineArm(if_stack, defines, Trim(l)),
                         if_stack)
    /\ last_macro' = IF IsActive(if_stack) THEN l ELSE last_macro
    /\ UNCHANGED <<nest, kept>>

\* "undef"
RunUndef(l) ==
    /\ ReadLine(l)
    /\ HasDirective(l, KwUndef)
    /\ \E order \in IterationOrders(DOMAIN defines) :
          AfterDirective(Flush(order), UndefArm(if_stack, defines, Trim(l)),
                         if_stack)
    /\ last_macro' = IF IsActive(if_stack) THEN l ELSE last_macro
    /\ UNCHANGED <<nest, kept>>

\* "ifdef"
RunIfdef(l) ==
    /\ ReadLine(l)
    /\ HasDirective(l, KwIfdef)
    /\ \E order \in IterationOrders(DOMAIN defines) :
          AfterDirective(Flush(order), defines,
                         HandleIfdef(if_stack, defines, Trim(l)))
    /\ nest' = Append(nest, ~IsActive(if_stack))
    /\ UNCHANGED <<kept, last_macro>>

\* "ifndef"
RunIfndef(l) ==
    /\ ReadLine(l)
    /\ HasDirective(l, KwIfndef)
    /\ \E order \in IterationOrders(DOMAIN defines) :
          AfterDirective(Flush(order), defines,
                         HandleIfndef(if_stack, defines, Trim(l)))
    /\ nest' = Append(nest, ~IsActive(if_stack))
    /\ UNCHANGED <<kept, last_macro>>

\* the state handle_if pushes once the condition is evaluated (c)
PushEvaluated(stack, c) ==
    [hung |-> c.hung, neg_overflow |-> c.neg_overflow,
     stack |-> Append(stack, IF c.value THEN "Active" ELSE "Searching")]

\* a handle_if that evaluates its condition in an inactive branch as well
HandleIfEvaluates(stack, defs, l, order) ==
    PushEvaluated(stack, EvaluateIfExpr(ConditionStr(l, KwIf), defs, order))

\* handle_if: the stack after the line, or hung
HandleIf(stack, defs, l, order) ==
    IF ~IsActive(stack)
    THEN [hung |-> FALSE, neg_overflow |-> FALSE, stack |-> Append(stack, "Done")]
    ELSE PushEvaluated(stack, EvaluateIfExpr(ConditionStr(l, KwIf), defs, order))

\* the second half of handle_elif, c being condition_is_true
ElifEvaluated(stack, c) ==
    [hung |-> c.hung, neg_overflow |-> c.neg_overflow,
     stack |-> IF stack = <<>> THEN stack
               ELSE SetTop(stack, ElifTransition(stack[Len(stack)], c.value))]

\* handle_elif: the stack after the line, or hung
HandleElif(stack, defs, l, order) ==
    ElifEvaluated(stack,
                  IF stack # <<>> /\ stack[Len(stack)] = "Searching"
                  THEN EvaluateIfExpr(ConditionStr(l, KwElif), defs, order)
                  ELSE Evaluated(FALSE, FALSE, 0, FALSE))

\* handle_else: the stack after the line
HandleElse(stack) ==
    IF stack = <<>> THEN stack
    ELSE SetTop(stack, ElseTransition(stack[Len(stack)]))

\* the evaluation of the condition panicked (a build with overflow checks)
OverflowPanic(f) ==
    /\ pc' = "panic"
    /\ active_buffer' = f.buffer
    /\ output' = f.output
    /\ UNCHANGED <<defines, if_stack, error>>

\* what follows the flush f and the handler outcome h of #if / #elif: when
\* the evaluation negated the minimum integer the build decides between the
\* panic and the wrapped value
AfterConditional(f, h) ==
    IF f.hung \/ h.hung THEN Hang
    ELSE \/ Continue(f, defines, h.stack)
         \/ h.neg_overflow /\ OverflowPanic(f)

\* "if"
RunIf(l) ==
    /\ ReadLine(l)
    /\ HasDirective(l, KwIf)
    /\ \E order \in IterationOrders(DOMAIN defines) :
          AfterConditional(Flush(order), HandleIf(if_stack, defines, Trim(l), order))
    /\ nest' = Append(nest, ~IsActive(if_stack))
    /\ UNCHANGED <<kept, last_macro>>

\* "elif"
RunElif(l) ==
    /\ ReadLine(l)
    /\ HasDirective(l, KwElif)
    /\ \E order \in IterationOrders(DOMAIN defines) :
          AfterConditional(Flush(order), HandleElif(if_stack, defines, Trim(l), order))
    /\ UNCHANGED <<nest, kept, last_macro>>

\* "else"
RunElse(l) ==
    /\ ReadLine(l)
    /\ HasDirective(l, KwElse)
    /\ \E order \in IterationOrders(DOMAIN defines) :
          AfterDirective(Flush(order), defines, HandleElse(if_stack))
    /\ UNCHANGED <<nest, kept, last_macro>>

\* "endif"
RunEndif(l) ==
    /\ ReadLine(l)
    /\ HasDirective(l, KwEndif)
    /\ \E order \in IterationOrders(DOMAIN defines) :
          AfterDirective(Flush(order), defines, HandleEndif(if_stack))
    /\ nest' = Slice(nest, 1, Len(nest) - 1)
    /\ UNCHANGED <<kept, last_macro>>

\* what follows the flush f of an #error line, e being handle_error's outcome
AfterError(f, e) ==
    IF f.hung THEN Hang
    ELSE IF ~IsActive(if_stack) THEN Continue(f, defines, if_stack)
    ELSE IF e.panic
    THEN /\ pc' = "panic"
         /\ active_buffer' = f.buffer
         /\ output' = f.output
         /\ UNCHANGED <<defines, if_stack, error>>
    ELSE Fail(f, e.message)

\* "error"
RunError(l) ==
    /\ ReadLine(l)
    /\ HasDirective(l, KwError)
    /\ \E order \in IterationOrders(DOMAIN defines) :
          AfterError(Flush(order), HandleError(Trim(l)))
    /\ UNCHANGED <<nest, kept, last_macro>>

\* "pragma" | "extension" | "version" | "line"
RunIgnored(l) ==
    /\ ReadLine(l)
    /\ \E name \in IgnoredDirectives : HasDirective(l, name)
    /\ \E order \in IterationOrders(DOMAIN defines) :
          AfterDirective(Flush(order), defines, if_stack)
    /\ UNCHANGED <<nest, kept, last_macro>>

KnownDirectives ==
    {KwDefine, KwUndef, KwIfdef, KwIfndef, KwIf, KwElif, KwElse, KwEndif, KwError}
    \cup IgnoredDirectives

\* an arm _ that fails only if is_active(), as the arm "error" does
AfterUnknownWhenActive(f, directive) ==
    IF f.hung THEN Hang
    ELSE IF IsActive(if_stack) THEN Fail(f, UnknownDirectiveMessage(directive))
    ELSE Continue(f, defines, if_stack)

\* what follows the flush f of a directive run does not know
AfterUnknown(f, directive) ==
    IF f.hung THEN Hang ELSE Fail(f, UnknownDirectiveMessage(directive))

\* the arm _ of the match: any other name
RunUnknown(l) ==
    /\ ReadLine(l)
    /\ IsDirectiveLine(l)
    /\ GetDirectiveName(Trim(l)).some
    /\ GetDirectiveName(Trim(l)).name \notin KnownDirectives
    /\ \E order \in IterationOrders(DOMAIN defines) :
          AfterUnknown(Flush(order), GetDirectiveName(Trim(l)).name)
    /\ UNCHANGED <<nest, kept, last_macro>>

\* a '#' with no name after it: get_directive_name gives None
RunNoName(l) ==
    /\ ReadLine(l)
    /\ IsDirectiveLine(l)
    /\ ~GetDirectiveName(Trim(l)).some
    /\ \E order \in IterationOrders(DOMAIN defines) :
          AfterDirective(Flush(order), defines, if_stack)
    /\ UNCHANGED <<nest, kept, last_macro>>

\* the end of run once the last buffer is expanded (x)
Return(x) ==
    IF active_buffer # <<>> /\ x.hung
    THEN pc' = "hung" /\ output' = output
    ELSE /\ pc' = "ok"
         /\ output' = IF active_buffer # <<>> THEN output \o x.line ELSE output

\* after the loop: "Expand any remaining active buffer", Ok(output)
RunReturn ==
    /\ pc = "scan"
    /\ \E order \in IterationOrders(DOMAIN defines) :
          Return(ExpandMacros(active_buffer, defines, order))
    /\ UNCHANGED <<raw, loop_line, defines, if_stack, line_number, active_buffer,
                   error, expand_line, nest, kept, prev_stack,
                   last_macro, result, tracker, scan, conv>>

\* the source of Spec is any sequence of at most MaxLines lines of LineSet:
\* the next line is l
Feed(l) == line_number < MaxLines /\ pending' = pending

\* run on any source of at most MaxLines lines of LineSet
Next ==
    \/ \E l \in LineSet : Feed(l) /\ RunCodeLine(l)
    \/ \E l \in LineSet : Feed(l) /\ RunDefine(l)
    \/ \E l \in LineSet : Feed(l) /\ RunUndef(l)
    \/ \E l \in LineSet : Feed(l) /\ RunIfdef(l)
    \/ \E l \in LineSet : Feed(l) /\ RunIfndef(l)
    \/ \E l \in LineSet : Feed(l) /\ RunIf(l)
    \/ \E l \in LineSet : Feed(l) /\ RunElif(l)
    \/ \E l \in LineSet : Feed(l) /\ RunElse(l)
    \/ \E l \in LineSet : Feed(l) /\ RunEndif(l)
    \/ \E l \in LineSet : Feed(l) /\ RunError(l)
    \/ \E l \in LineSet : Feed(l) /\ RunIgnored(l)
    \/ \E l \in LineSet : Feed(l) /\ RunUnknown(l)
    \/ \E l \in LineSet : Feed(l) /\ RunNoName(l)
    \/ (pending' = pending /\ RunReturn)

Spec == Init /\ [][Next]_vars

(***************************************************************************)
(* run from the text of the source                                         *)
(***************************************************************************)
\* what the source texts of SpecText are made of
Pieces ==
    { <<"\n">>, <<"\r">>, <<"\\">>, <<"/", "/">>, <<"/", "*">>, <<"*", "/">>,
      <<"\"">>, <<"x">> }

\* the texts made of at most n pieces
RECURSIVE Texts(_)
Texts(n) ==
    IF n = 0 THEN {<<>>}
    ELSE Texts(n - 1) \cup {t \o p : t \in Texts(n - 1), p \in Pieces}

\* the directive every source text of SpecText ends with
ErrorLine == <<"#", "e", "r", "r", "o", "r", " ", "m">>

\* run is called on a text that ends with an #error line
InitText ==
    /\ raw \in {t \o ErrorLine : t \in Texts(MaxPieces)}
    /\ pending = <<>>
    /\ loop_line = <<>>
    /\ pc = "text"
    /\ defines = NoDefines
    /\ if_stack = <<>>
    /\ line_number = 0
    /\ active_buffer = <<>>
    /\ output = <<>>
    /\ error = NoError
    /\ expand_line = <<>>
    /\ nest = <<>>
    /\ kept = <<>>
    /\ prev_stack = <<>>
    /\ last_macro = <<>>
    /\ result = None
    /\ tracker = NewTracker
    /\ scan = NewScan
    /\ conv = NoCall

\* the head of run: line endings, splicing, strip_comments, lines()
Prepare ==
    /\ pc = "text"
    /\ pc' = "scan"
    /\ pending' = SourceLines(raw)
    /\ UNCHANGED <<raw, loop_line, defines, if_stack, line_number, active_buffer,
                   output, error, expand_line, nest, kept, prev_stack,
                   last_macro, result, tracker, scan, conv>>

\* the line the for loop takes next, if there is one
NextLine == {pending[i] : i \in {1} \cap DOMAIN pending}

\* the for loop takes the next line of the text
FeedText(l) == l \in NextLine /\ pending' = Tail(pending)

\* run on the text raw
NextText ==
    \/ Prepare
    \/ \E l \in NextLine : FeedText(l) /\ RunCodeLine(l)
    \/ \E l \in NextLine : FeedText(l) /\ RunError(l)
    \/ (pending = <<>> /\ pending' = pending /\ RunReturn)

SpecText == InitText /\ [][NextText]_vars

(***************************************************************************)
(* expand_macros on its own                                                *)
(***************************************************************************)
FOO == <<"F", "O", "O">>
BAR == <<"B", "A", "R">>

\* the macro mappings expand_macros is called with in SpecExpand
DefineSets ==
    { \* #define FOO .4   #define BAR (FOO * 4.)
      MapInsert(MapInsert(NoDefines, FOO, MacroDef(FALSE, <<>>, <<".", "4">>)),
                BAR, MacroDef(FALSE, <<>>, <<"(", "F", "O", "O", " ", "*", " ", "4", ".", ")">>)),
      \* #define F(a) (a)
      MapInsert(NoDefines, <<"F">>, MacroDef(TRUE, <<<<"a">>>>, <<"(", "a", ")">>)),
      \* #define F() BAR   #define BAR x
      MapInsert(MapInsert(NoDefines, <<"F">>, MacroDef(TRUE, <<>>, BAR)),
                BAR, MacroDef(FALSE, <<>>, <<"x">>)),
      \* #define F(a,b) b FOO   #define FOO F
      MapInsert(MapInsert(NoDefines, <<"F">>,
                          MacroDef(TRUE, <<<<"a">>, <<"b">>>>, <<"b", " ", "F", "O", "O">>)),
                FOO, MacroDef(FALSE, <<>>, <<"F">>)),
      \* #define FOO FOO
      MapInsert(NoDefines, FOO, MacroDef(FALSE, <<>>, FOO)),
      \* #define FOO BAR   #define BAR FOO
      MapInsert(MapInsert(NoDefines, FOO, MacroDef(FALSE, <<>>, BAR)),
                BAR, MacroDef(FALSE, <<>>, FOO)),
      \* #define F(a) a(a)
      MapInsert(NoDefines, <<"F">>,
                MacroDef(TRUE, <<<<"a">>>>, <<"a", "(", "a", ")">>)) }

\* what the buffers of SpecExpand are made of
Tokens == {FOO, BAR, <<"F">>, <<"(">>, <<")">>, <<",">>, <<" ">>, <<"x">>}

\* the buffers made of at most n tokens
RECURSIVE Buffers(_)
Buffers(n) ==
    IF n = 0 THEN {<<>>}
    ELSE Buffers(n - 1) \cup {b \o t : b \in Buffers(n - 1), t \in Tokens}

\* expand_macros is called: raw keeps its argument `line`
InitExpand ==
    /\ raw \in Buffers(MaxTokens)
    /\ expand_line = raw
    /\ defines \in DefineSets
    /\ pc = "expand"
    /\ pending = <<>>
    /\ loop_line = <<>>
    /\ if_stack = <<>>
    /\ line_number = 0
    /\ active_buffer = <<>>
    /\ output = <<>>
    /\ error = NoError
    /\ nest = <<>>
    /\ kept = <<>>
    /\ prev_stack = <<>>
    /\ last_macro = <<>>
    /\ result = None
    /\ tracker = NewTracker
    /\ scan = NewScan
    /\ conv = NoCall

\* the pass p expanded something: the loop goes on
PassExpanded(p) ==
    /\ p.expanded_in_pass
    /\ expand_line' = p.line
    /\ pc' = pc

\* the pass p expanded nothing: break, current_line is returned
PassExpandedNothing(p) ==
    /\ ~p.expanded_in_pass
    /\ expand_line' = expand_line
    /\ pc' = "returned"

\* one pass of the loop that applies the earliest expansion
ExpandStep ==
    /\ pc = "expand"
    /\ Len(expand_line) <= MaxText
    /\ \E order \in IterationOrders(DOMAIN defines) :
          PassExpanded(ExpandPass(expand_line, defines, order))
    /\ UNCHANGED <<raw, pending, loop_line, defines, if_stack, line_number,
                   active_buffer, output, error, nest, kept, prev_stack,
                   last_macro, result, tracker, scan, conv>>

\* the last pass of the loop
ExpandReturn ==
    /\ pc = "expand"
    /\ \E order \in IterationOrders(DOMAIN defines) :
          PassExpandedNothing(ExpandPass(expand_line, defines, order))
    /\ UNCHANGED <<raw, pending, loop_line, defines, if_stack, line_number,
                   active_buffer, output, error, nest, kept, prev_stack,
                   last_macro, result, tracker, scan, conv>>

\* the loop has no other exit than the pass that expands nothing: from a
\* buffer whose passes bring a buffer back, it never returns
ExpandHang ==
    /\ pc = "expand"
    /\ \E order \in IterationOrders(DOMAIN defines) :
          ExpandMacros(expand_line, defines, order).hung
    /\ pc' = "hung"
    /\ UNCHANGED <<raw, pending, loop_line, defines, if_stack, line_number,
                   active_buffer, output, error, expand_line, nest, kept,
                   prev_stack, last_macro, result, tracker, scan, conv>>

NextExpand == ExpandStep \/ ExpandReturn \/ ExpandHang

SpecExpand == InitExpand /\ [][NextExpand]_vars

(***************************************************************************)
(* replace_params on its own: the invocation F(args) of a macro F whose    *)
(* parameters and body are drawn from ParamLists and Bodies                *)
(***************************************************************************)
\* the parameter lists of F: X and XY, a name and a longer one that starts
\* with it, in both orders, and two unrelated names
ParamLists ==
    { << <<"X">>, <<"X", "Y">> >>,
      << <<"X", "Y">>, <<"X">> >>,
      << <<"X">>, <<"Y">> >> }

\* the argument lists F is invoked with: arguments that hold parameter names
ArgLists ==
    { << <<"Y">>, <<"X">> >>,
      << <<"X", "+", "Y">>, <<"1">> >>,
      << <<>>, <<"X", "Y">> >> }

BodyChars == {"X", "Y", "1", "+", " "}

\* the bodies of at most n characters
RECURSIVE Bodies(_)
Bodies(n) ==
    IF n = 0 THEN {<<>>}
    ELSE Bodies(n - 1) \cup {b \o <<c>> : b \in Bodies(n - 1), c \in BodyChars}

\* the text of the invocation of F with two arguments
InvocationOf(args) == <<"F", "(">> \o args[1] \o <<",">> \o args[2] \o <<")">>

InitParams ==
    /\ raw \in {InvocationOf(args) : args \in ArgLists}
    /\ defines \in {MapInsert(NoDefines, <<"F">>, MacroDef(TRUE, params, body)) :
                       params \in ParamLists, body \in Bodies(MaxBody)}
    /\ pc = "substitute"
    /\ expand_line = raw
    /\ pending = <<>>
    /\ loop_line = <<>>
    /\ if_stack = <<>>
    /\ line_number = 0
    /\ active_buffer = <<>>
    /\ output = <<>>
    /\ error = NoError
    /\ nest = <<>>
    /\ kept = <<>>
    /\ prev_stack = <<>>
    /\ last_macro = <<>>
    /\ result = None
    /\ tracker = NewTracker
    /\ scan = NewScan
    /\ conv = NoCall

\* the arguments are parsed and replace_params gives the replacement of the
\* invocation at offset 0
SubstituteParams ==
    /\ pc = "substitute"
    /\ result' = FunctionLike(ParseMacroArgs(raw, 1, Len(defines[<<"F">>].params)),
                              defines[<<"F">>], 0, NoExpansion)
    /\ pc' = "substituted"
    /\ UNCHANGED <<raw, pending, loop_line, defines, if_stack, line_number,
                   active_buffer, output, error, expand_line, nest, kept,
                   prev_stack, last_macro, tracker, scan, conv>>

NextParams == SubstituteParams

SpecParams == InitParams /\ [][NextParams]_vars

(***************************************************************************)
(* evaluate_if_expr on its own: the condition text is drawn from           *)
(* Expressions, the macros are A = 10, B = 5, C = 3                        *)
(***************************************************************************)
EvalDefines ==
    MapInsert(MapInsert(MapInsert(NoDefines,
        <<"A">>, MacroDef(FALSE, <<>>, <<"1", "0">>)),
        <<"B">>, MacroDef(FALSE, <<>>, <<"5">>)),
        <<"C">>, MacroDef(FALSE, <<>>, <<"3">>))

\* the decimal literal of n, 0 <= n <= 9
Numeral(n) == <<<<"0", "1", "2", "3", "4", "5", "6", "7", "8", "9">>[n + 1]>>

\* the binary operators as they are written
BinaryOpTexts ==
    { <<"|", "|">>, <<"&", "&">>, <<"^", "^">>, <<"|">>, <<"^">>, <<"&">>,
      <<"=", "=">>, <<"!", "=">>, <<"<">>, <<"<", "=">>, <<">">>, <<">", "=">>,
      <<"<", "<">>, <<">", ">">>, <<"+">>, <<"-">>, <<"*">>, <<"/">>, <<"%">> }

ArithmeticOpTexts ==
    { <<"<", "<">>, <<">", ">">>, <<"+">>, <<"-">>, <<"*">>, <<"/">>, <<"%">> }

\* a op1 b op2 c over the literals 0..MaxNumber
ThreeOperandExpressions ==
    { Numeral(a) \o op1 \o Numeral(b) \o op2 \o Numeral(c) :
        a \in 0..MaxNumber, b \in 0..MaxNumber, c \in 0..MaxNumber,
        op1 \in BinaryOpTexts, op2 \in BinaryOpTexts }

\* the minimum integer, written as 1 shifted left by width - 1 (the shift
\* amount -1 is taken modulo the width), and the maximum integer
MinIntText == <<"(", "1", "<", "<", "-", "1", ")">>

MaxIntText == <<"~">> \o MinIntText

\* operands at and around the ends of the integer range
EdgeOperands == {MinIntText, MaxIntText, <<"-", "1">>, <<"0">>, <<"1">>, <<"2">>}

EdgeExpressions ==
    { x \o op \o y : x \in EdgeOperands, y \in EdgeOperands, op \in ArithmeticOpTexts }
    \cup { u \o x : u \in {<<"-">>, <<"~">>}, x \in EdgeOperands }

\* what the free-form expressions are made of: literals, operators,
\* parentheses, an identifier that is not a macro, a character that is no token
ExprPieces == {<<"5">>, <<"0">>, <<"+">>, <<"*">>, <<"(">>, <<")">>, <<"D">>, <<"$">>}

RECURSIVE FreeExpressions(_)
FreeExpressions(n) ==
    IF n = 0 THEN {<<>>}
    ELSE FreeExpressions(n - 1)
         \cup {e \o t : e \in FreeExpressions(n - 1), t \in ExprPieces}

\* A + B * C == 25
ExampleExpression ==
    <<"A", " ", "+", " ", "B", " ", "*", " ", "C", " ", "=", "=", " ", "2", "5">>

Expressions ==
    ThreeOperandExpressions \cup EdgeExpressions \cup FreeExpressions(MaxExprPieces)
    \cup {ExampleExpression}

InitEval ==
    /\ raw \in Expressions
    /\ defines = EvalDefines
    /\ pc = "evaluate"
    /\ expand_line = <<>>
    /\ pending = <<>>
    /\ loop_line = <<>>
    /\ if_stack = <<>>
    /\ line_number = 0
    /\ active_buffer = <<>>
    /\ output = <<>>
    /\ error = NoError
    /\ nest = <<>>
    /\ kept = <<>>
    /\ prev_stack = <<>>
    /\ last_macro = <<>>
    /\ result = None
    /\ tracker = NewTracker
    /\ scan = NewScan
    /\ conv = NoCall

\* evaluate_if_expr returns e
Returns(e) ==
    /\ ~e.hung
    /\ result' = e
    /\ pc' = "evaluated"

\* evaluate_if_expr(raw) returns; when the evaluation negated the minimum
\* integer this is the build without overflow checks
EvaluateReturns ==
    /\ pc = "evaluate"
    /\ \E order \in IterationOrders(DOMAIN defines) :
          Returns(EvaluateIfExpr(raw, defines, order))
    /\ UNCHANGED <<raw, pending, loop_line, defines, if_stack, line_number,
                   active_buffer, output, error, expand_line, nest, kept,
                   prev_stack, last_macro, tracker, scan, conv>>

\* evaluate_if_expr(raw) panics: the evaluation negated the minimum integer in
\* a build with overflow checks
EvaluatePanics ==
    /\ pc = "evaluate"
    /\ \E order \in IterationOrders(DOMAIN defines) :
          EvaluateIfExpr(raw, defines, order).neg_overflow
    /\ pc' = "panic"
    /\ UNCHANGED <<raw, pending, loop_line, defines, if_stack, line_number,
                   active_buffer, output, error, expand_line, nest, kept,
                   prev_stack, last_macro, result, tracker, scan, conv>>

NextEval == EvaluateReturns \/ EvaluatePanics

SpecEval == InitEval /\ [][NextEval]_vars

(***************************************************************************)
(* strip_comments on its own: called on a source text, then on what it     *)
(* returned                                                                *)
(***************************************************************************)
\* what the source texts are made of: the characters of comments and string
\* literals, a newline and a letter
SourceChars == {"/", "*", "\"", "\\", "\n", "a"}

\* the source texts of at most n characters
RECURSIVE Sources(_)
Sources(n) ==
    IF n = 0 THEN {<<>>}
    ELSE Sources(n - 1) \cup {t \o <<c>> : t \in Sources(n - 1), c \in SourceChars}

InitStrip ==
    /\ raw \in Sources(MaxSource)
    /\ pc = "strip"
    /\ result = None
    /\ tracker = NewTracker
    /\ scan = NewScan
    /\ conv = NoCall
    /\ defines = NoDefines
    /\ expand_line = <<>>
    /\ pending = <<>>
    /\ loop_line = <<>>
    /\ if_stack = <<>>
    /\ line_number = 0
    /\ active_buffer = <<>>
    /\ output = <<>>
    /\ error = NoError
    /\ nest = <<>>
    /\ kept = <<>>
    /\ prev_stack = <<>>
    /\ last_macro = <<>>

\* strip_comments(raw)
Strip ==
    /\ pc = "strip"
    /\ result' = <<StripComments(raw)>>
    /\ pc' = "stripped"
    /\ UNCHANGED <<raw, pending, loop_line, defines, if_stack, line_number,
                   active_buffer, output, error, expand_line, nest, kept,
                   prev_stack, last_macro, tracker, scan, conv>>

\* strip_comments of what strip_comments(raw) returned
StripAgain ==
    /\ pc = "stripped"
    /\ result' = Append(result, StripComments(result[1]))
    /\ pc' = "stripped_again"
    /\ UNCHANGED <<raw, pending, loop_line, defines, if_stack, line_number,
                   active_buffer, output, error, expand_line, nest, kept,
                   prev_stack, last_macro, tracker, scan, conv>>

\* the state machine of strip_comments run on raw whether or not raw has a
\* comment start: strip_comments past its early return
ScanOnly ==
    /\ pc = "strip"
    /\ result' = <<StripLoop(raw, "Outside")>>
    /\ pc' = "scanned"
    /\ UNCHANGED <<raw, pending, loop_line, defines, if_stack, line_number,
                   active_buffer, output, error, expand_line, nest, kept,
                   prev_stack, last_macro, tracker, scan, conv>>

NextStrip == Strip \/ StripAgain \/ ScanOnly

SpecStrip == InitStrip /\ [][NextStrip]_vars

(***************************************************************************)
(* GlslDepthTracker                                                        *)
(***************************************************************************)
\* i32::MIN
I32Min == -2147483647 - 1

\* i32::saturating_sub(1): the result saturates at i32::MIN
SaturatingSub1(x) == IF x = I32Min THEN x ELSE x - 1

\* a decrement that stops at zero
SubToZero(x) == IF x <= 0 THEN 0 ELSE x - 1

\* update_brackets (no text of the model has the 2^31 - 1 opening brackets
\* that make += 1 overflow)
UpdateBrackets(t, byte) ==
    CASE byte = "(" -> [t EXCEPT !.paren = @ + 1]
      [] byte = ")" -> [t EXCEPT !.paren = SaturatingSub1(@)]
      [] byte = "{" -> [t EXCEPT !.brace = @ + 1]
      [] byte = "}" -> [t EXCEPT !.brace = SaturatingSub1(@)]
      [] byte = "[" -> [t EXCEPT !.bracket = @ + 1]
      [] byte = "]" -> [t EXCEPT !.bracket = SaturatingSub1(@)]
      [] OTHER -> t

\* update_for_loop
UpdateForLoop(t, byte) ==
    IF t.for_loop_depth > 0
    THEN (IF byte = ";" /\ t.for_loop_part < 3
          THEN [t EXCEPT !.for_loop_part = @ + 1]
          ELSE IF byte = ")" /\ t.paren = 0
          THEN [t EXCEPT !.for_loop_depth = 0, !.for_loop_part = 0]
          ELSE t)
    ELSE t

InParentheses(t) == t.paren > 0

InSquareBrackets(t) == t.bracket > 0

AtGlobalScope(t) == t.brace = 0 /\ t.paren = 0 /\ t.bracket = 0

InForLoopInitialization(t) == t.for_loop_depth > 0 /\ t.for_loop_part = 1

StartForLoopTracking(t) == [t EXCEPT !.for_loop_depth = 1, !.for_loop_part = 1]

\* impl PartialEq for GlslDepthTracker
TrackerEq(a, b) == a.brace = b.brace /\ a.bracket = b.bracket /\ a.paren = b.paren

(***************************************************************************)
(* GlslInitializer: default values                                         *)
(***************************************************************************)
\* Option<String>
NoText == [some |-> FALSE, text |-> <<>>]

SomeText(text) == [some |-> TRUE, text |-> text]

\* Vec<String>::join(sep)
RECURSIVE JoinWith(_, _)
JoinWith(parts, sep) ==
    IF parts = <<>> THEN <<>>
    ELSE IF Len(parts) = 1 THEN parts[1]
    ELSE parts[1] \o sep \o JoinWith(Tail(parts), sep)

CommaSpace == <<",", " ">>

\* str::parse::<usize> of a run of decimal digits (the runs of the model are
\* far from the 20 digits that do not fit)
RECURSIVE ParseDecimal(_, _)
ParseDecimal(digits, acc) ==
    IF digits = <<>> THEN acc
    ELSE ParseDecimal(Tail(digits), acc * 10 + DigitValue(Head(digits)))

\* the decimal text of n, as format!("{}") writes it
RECURSIVE Decimal(_)
Decimal(n) ==
    IF n < 10 THEN <<<<"0", "1", "2", "3", "4", "5", "6", "7", "8", "9">>[n + 1]>>
    ELSE Decimal(n \div 10) \o Decimal(n % 10)

\* the regex \[\s*(\d+)\s*\] matched at offset k of spec: the offset after the
\* match and the digits captured, or ok = FALSE
DimMatch(spec, k, ws1, digits) ==
    IF digits = 0 THEN [ok |-> FALSE, end |-> 0, value |-> 0]
    ELSE IF k + 1 + ws1 + digits + LeadingWs(Drop(spec, k + 1 + ws1 + digits)) < Len(spec)
            /\ spec[k + 2 + ws1 + digits + LeadingWs(Drop(spec, k + 1 + ws1 + digits))] = "]"
    THEN [ok |-> TRUE,
          end |-> k + 2 + ws1 + digits + LeadingWs(Drop(spec, k + 1 + ws1 + digits)),
          value |-> ParseDecimal(Slice(spec, k + 2 + ws1, k + 1 + ws1 + digits), 0)]
    ELSE [ok |-> FALSE, end |-> 0, value |-> 0]

DimAt(spec, k) ==
    IF k < Len(spec) /\ spec[k + 1] = "["
    THEN DimMatch(spec, k, LeadingWs(Drop(spec, k + 1)),
                  LeadingIn(Drop(spec, k + 1 + LeadingWs(Drop(spec, k + 1))), Digits))
    ELSE [ok |-> FALSE, end |-> 0, value |-> 0]

\* re.captures_iter(spec), each capture parsed: the sizes of the dimensions
\* that are written as integer literals
RECURSIVE DimsFrom(_, _)
DimsAfter(spec, k, m) ==
    IF m.ok THEN <<m.value>> \o DimsFrom(spec, m.end) ELSE DimsFrom(spec, k + 1)

DimsFrom(spec, k) ==
    IF k >= Len(spec) THEN <<>> ELSE DimsAfter(spec, k, DimAt(spec, k))

\* the default of a type that is matched by its name
NamedDefault(t) ==
    CASE t = <<"f", "l", "o", "a", "t">> -> SomeText(<<"0", ".", "0">>)
      [] t = <<"i", "n", "t">> -> SomeText(<<"0">>)
      [] t = <<"u", "i", "n", "t">> -> SomeText(<<"0", "u">>)
      [] t = <<"b", "o", "o", "l">> -> SomeText(<<"f", "a", "l", "s", "e">>)
      [] OTHER ->
         IF StartsWith(t, <<"v", "e", "c">>) \/ StartsWith(t, <<"m", "a", "t">>)
         THEN SomeText(t \o <<"(", "0", ".", "0", ")">>)
         ELSE IF StartsWith(t, <<"i", "v", "e", "c">>)
         THEN SomeText(t \o <<"(", "0", ")">>)
         ELSE IF StartsWith(t, <<"u", "v", "e", "c">>)
         THEN SomeText(t \o <<"(", "0", "u", ")">>)
         ELSE IF StartsWith(t, <<"b", "v", "e", "c">>)
         THEN SomeText(t \o <<"(", "f", "a", "l", "s", "e", ")">>)
         ELSE NoText

\* [d] for every d of dims
RECURSIVE DimsText(_)
DimsText(dims) ==
    IF dims = <<>> THEN <<>>
    ELSE <<"[">> \o Decimal(Head(dims)) \o <<"]">> \o DimsText(Tail(dims))

\* default_value recurses for the member m: it has no array specifier, or one
\* whose literal sizes are there and are not 0
MemberRecurses(m) ==
    \/ ~m.array_specifier.some
    \/ /\ DimsFrom(m.array_specifier.text, 0) # <<>>
       /\ \A k \in DOMAIN DimsFrom(m.array_specifier.text, 0) :
             DimsFrom(m.array_specifier.text, 0)[k] # 0

\* the struct types scalar_or_struct_default(t) calls itself for
StructCallees(t, struct_defs) ==
    IF NamedDefault(t).some \/ t \notin DOMAIN struct_defs THEN {}
    ELSE {struct_defs[t].members[k].type_name :
             k \in {j \in DOMAIN struct_defs[t].members :
                       MemberRecurses(struct_defs[t].members[j])}}

\* the types the recursion reaches from the types of S in at most n calls
RECURSIVE ReachedIn(_, _, _)
ReachedIn(S, struct_defs, n) ==
    IF n = 0 THEN S
    ELSE ReachedIn(S \cup UNION {StructCallees(t, struct_defs) : t \in S},
                   struct_defs, n - 1)

\* the recursion of scalar_or_struct_default(t) comes back to a type it is
\* already in: it never returns (the stack overflows)
RecursesForever(t, struct_defs) ==
    \E u \in ReachedIn({t}, struct_defs, Cardinality(DOMAIN struct_defs)) :
       u \in ReachedIn(StructCallees(u, struct_defs), struct_defs,
                       Cardinality(DOMAIN struct_defs))

RECURSIVE DefaultValue(_, _, _)
RECURSIVE ScalarOrStructDefault(_, _)
RECURSIVE GenerateArrayInitializerRecursive(_, _, _)
RECURSIVE MemberInits(_, _)

\* the filter_map of scalar_or_struct_default over the members
MemberInitsAfter(d, members, struct_defs) ==
    (IF d.some THEN <<d.text>> ELSE <<>>) \o MemberInits(Tail(members), struct_defs)

MemberInits(members, struct_defs) ==
    IF members = <<>> THEN <<>>
    ELSE MemberInitsAfter(DefaultValue(Head(members).type_name,
                                       Head(members).array_specifier, struct_defs),
                          members, struct_defs)

\* the struct arm of scalar_or_struct_default, member_inits collected
StructDefault(t, members, member_inits) ==
    IF Len(member_inits) = Len(members)
    THEN SomeText(t \o <<"(">> \o JoinWith(member_inits, CommaSpace) \o <<")">>)
    ELSE NoText

\* the match of scalar_or_struct_default, named being the outcome of the arms
\* that go by the name of the type
NamedFirst(named, t, struct_defs) ==
    IF named.some THEN named
    ELSE IF t \in DOMAIN struct_defs
    THEN StructDefault(t, struct_defs[t].members,
                       MemberInits(struct_defs[t].members, struct_defs))
    ELSE NoText

\* scalar_or_struct_default
ScalarOrStructDefault(t, struct_defs) == NamedFirst(NamedDefault(t), t, struct_defs)

\* element_initializer repeated n times
RECURSIVE Repeated(_, _)
Repeated(e, n) == IF n = 0 THEN <<>> ELSE <<e>> \o Repeated(e, n - 1)

\* the tail of generate_array_initializer_recursive, element_initializer given
ArrayInitializer(base_type, dims, element_initializer) ==
    IF ~element_initializer.some THEN NoText
    ELSE SomeText(base_type \o DimsText(SubSeq(dims, 1, Len(dims) - 1))
                  \o <<"[">> \o Decimal(dims[Len(dims)]) \o <<"]", "(">>
                  \o JoinWith(Repeated(element_initializer.text, dims[Len(dims)]),
                              CommaSpace)
                  \o <<")">>)

\* generate_array_initializer_recursive
GenerateArrayInitializerRecursive(base_type, dims, struct_defs) ==
    IF dims = <<>> THEN ScalarOrStructDefault(base_type, struct_defs)
    ELSE ArrayInitializer(base_type, dims,
                          GenerateArrayInitializerRecursive(
                              base_type, SubSeq(dims, 1, Len(dims) - 1), struct_defs))

\* default_value with an array specifier, dims collected
DimsOrNone(type_str, spec, dims, struct_defs) ==
    IF dims = <<>> \/ (\E k \in DOMAIN dims : dims[k] = 0) THEN NoText
    ELSE GenerateArrayInitializerRecursive(type_str, dims, struct_defs)

\* default_value; array_spec is an Option<&str>
DefaultValue(type_str, array_spec, struct_defs) ==
    IF array_spec.some
    THEN DimsOrNone(type_str, array_spec.text, DimsFrom(array_spec.text, 0), struct_defs)
    ELSE ScalarOrStructDefault(type_str, struct_defs)

(***************************************************************************)
(* GlslInitializer: the functions modifications calls                      *)
(***************************************************************************)
\* read_identifier(start): the offset after the identifier
ReadIdentifier(s, start) ==
    start + 1 + LeadingIn(Drop(s, start + 1), Letters \cup Digits \cup {"_"})

\* skip_preprocessor_directive(i)
SkipPreprocessorDirective(s, i) == i + 1 + LineLen(Drop(s, i + 1))

\* the while loop of skip_to_declaration_end
RECURSIVE SkipLoop(_, _, _, _)
SkipLoop(s, i, depth, in_string) ==
    IF i >= Len(s) THEN i
    ELSE IF in_string
    THEN (IF s[i + 1] = "\"" THEN SkipLoop(s, i + 1, depth, FALSE)
          ELSE IF s[i + 1] = "\\" /\ i + 1 < Len(s) THEN SkipLoop(s, i + 2, depth, TRUE)
          ELSE SkipLoop(s, i + 1, depth, TRUE))
    ELSE IF AtGlobalScope(UpdateBrackets(depth, s[i + 1])) /\ s[i + 1] = ";" THEN i + 1
    ELSE SkipLoop(s, i + 1, UpdateBrackets(depth, s[i + 1]), s[i + 1] = "\"")

\* skip_to_declaration_end(i)
SkipToDeclarationEnd(s, i) == SkipLoop(s, i, NewTracker, FALSE)

\* str::split(c), collected
RECURSIVE SplitOn(_, _)
SplitOn(s, c) ==
    IF FindChar(s, c, 0) < 0 THEN <<s>>
    ELSE <<Slice(s, 1, FindChar(s, c, 0))>> \o SplitOn(Drop(s, FindChar(s, c, 0) + 1), c)

\* struct StructMember
StructMember(type_name, name, array_specifier) ==
    [type_name |-> type_name, name |-> name, array_specifier |-> array_specifier]

\* parse_struct_body: the member of the declarator var_part, already trimmed
MemberOf(type_name, var_part) ==
    IF FindChar(var_part, "[", 0) >= 0
    THEN StructMember(type_name, Slice(var_part, 1, FindChar(var_part, "[", 0)),
                      SomeText(Drop(var_part, FindChar(var_part, "[", 0))))
    ELSE StructMember(type_name, var_part, NoText)

\* parse_struct_body: the members of the declarators var_parts
RECURSIVE MembersOf(_, _)
MembersOf(type_name, var_parts) ==
    IF var_parts = <<>> THEN <<>>
    ELSE (IF Head(var_parts) = <<>> THEN <<>>
          ELSE <<MemberOf(type_name, Head(var_parts))>>)
         \o MembersOf(type_name, Tail(var_parts))

\* parse_struct_body: the members of one declaration, parts being its
\* whitespace-separated words
DeclMembers(parts) ==
    IF Len(parts) < 2 THEN <<>>
    ELSE MembersOf(parts[1], SplitCommaTrim(Concat(Tail(parts))))

\* parse_struct_body over the declarations decls
RECURSIVE StructBodyMembers(_)
StructBodyMembers(decls) ==
    IF decls = <<>> THEN <<>>
    ELSE DeclMembers(SplitWhitespace(Head(decls))) \o StructBodyMembers(Tail(decls))

\* parse_struct_body
ParseStructBody(body) == StructBodyMembers(SplitOn(body, ";"))

\* what parse_struct_definition leaves: the offset it returns and the struct
\* definitions, or panic
StructParsed(panic, i, struct_defs) == [panic |-> panic, i |-> i, struct_defs |-> struct_defs]

\* the loop of parse_struct_definition that looks for the closing brace
RECURSIVE BraceLoop(_, _, _)
BraceLoop(s, i, depth) ==
    IF i >= Len(s) \/ depth <= 0 THEN [i |-> i, depth |-> depth]
    ELSE BraceLoop(s, i + 1,
                   IF s[i + 1] = "{" THEN depth + 1
                   ELSE IF s[i + 1] = "}" THEN depth - 1 ELSE depth)

\* parse_struct_definition once the body is delimited: b is where the brace
\* loop ended
StructRegistered(s, struct_defs, name, start_brace, b) ==
    IF b.depth = 0 /\ name # <<>>
    THEN StructParsed(FALSE, b.i,
                      MapInsert(struct_defs, name,
                                [members |-> ParseStructBody(Slice(s, start_brace + 1, b.i - 1))]))
    ELSE StructParsed(FALSE, b.i, struct_defs)

\* parse_struct_definition from the name on: name is s[i..name_end] (empty
\* when there is no identifier) and open the offset of the next '{'
StructFrom(s, struct_defs, name, open) ==
    IF open < 0 THEN StructParsed(FALSE, Len(s), struct_defs)
    ELSE StructRegistered(s, struct_defs, name, open + 1, BraceLoop(s, open + 1, 1))

\* parse_struct_definition, i being the offset after the whitespace: the byte
\* at i is read whether or not i is in the source
StructAt(s, struct_defs, i) ==
    IF i >= Len(s) THEN StructParsed(TRUE, i, struct_defs)
    ELSE IF IsIdentifierStart(s[i + 1])
    THEN StructFrom(s, struct_defs, Slice(s, i + 1, ReadIdentifier(s, i)),
                    FindChar(s, "{", ReadIdentifier(s, i)))
    ELSE StructFrom(s, struct_defs, <<>>, FindChar(s, "{", i))

\* parse_struct_definition(i)
ParseStructDefinition(s, struct_defs, i) ==
    StructAt(s, struct_defs, i + LeadingWs(Drop(s, i)))

\* the loop of is_function_definition that looks for the closing parenthesis
RECURSIVE ParenLoop(_, _, _)
ParenLoop(s, i, depth) ==
    IF i >= Len(s) \/ depth <= 0 THEN i
    ELSE ParenLoop(s, i + 1,
                   IF s[i + 1] = "(" THEN depth + 1
                   ELSE IF s[i + 1] = ")" THEN depth - 1 ELSE depth)

\* an is_function_definition that takes only ';' for the end of a signature
AfterParametersPrototypeOnly(s, i) ==
    i + LeadingWs(Drop(s, i)) < Len(s) /\ s[i + LeadingWs(Drop(s, i)) + 1] \in {";"}

\* is_function_definition after the parameter list, which ends at offset i
AfterParameters(s, i) ==
    i + LeadingWs(Drop(s, i)) < Len(s) /\ s[i + LeadingWs(Drop(s, i)) + 1] \in {";", "{"}

\* is_function_definition after the name, i being the offset of the next
\* byte that is not whitespace
AfterFunctionName(s, i) ==
    IF i >= Len(s) \/ s[i + 1] # "(" THEN FALSE
    ELSE AfterParameters(s, ParenLoop(s, i + 1, 1))

\* is_function_definition(i)
IsFunctionDefinition(s, i) ==
    IF i >= Len(s) \/ ~IsIdentifierStart(s[i + 1]) THEN FALSE
    ELSE AfterFunctionName(s, ReadIdentifier(s, i) + LeadingWs(Drop(s, ReadIdentifier(s, i))))

\* find_declaration_end: -1 for None
RECURSIVE FindDeclarationEnd(_, _, _, _)
FindDeclarationEnd(s, i, local_depth, start_depth) ==
    IF i >= Len(s) \/ s[i + 1] = "\"" THEN -1
    ELSE IF /\ TrackerEq(UpdateForLoop(UpdateBrackets(local_depth, s[i + 1]), s[i + 1]),
                         start_depth)
            /\ s[i + 1] = ";"
    THEN i
    ELSE FindDeclarationEnd(s, i + 1,
                            UpdateForLoop(UpdateBrackets(local_depth, s[i + 1]), s[i + 1]),
                            start_depth)

\* split_by_commas: depth is an i32 and saturating_sub stops at i32::MIN
RECURSIVE SplitByCommasLoop(_, _, _, _)
SplitByCommasLoop(s, i, depth, start) ==
    IF i >= Len(s) THEN <<Drop(s, start)>>
    ELSE IF depth = 0 /\ s[i + 1] = ","
    THEN <<Slice(s, start + 1, i)>> \o SplitByCommasLoop(s, i + 1, depth, i + 1)
    ELSE SplitByCommasLoop(s, i + 1,
                           IF s[i + 1] \in {"(", "[", "{"} THEN depth + 1
                           ELSE IF s[i + 1] \in {")", "]", "}"} THEN SaturatingSub1(depth)
                           ELSE depth,
                           start)

SplitByCommas(s) == SplitByCommasLoop(s, 0, 0, 0)

\* the offset of the last c in s, or -1
RECURSIVE RFindChar(_, _)
RFindChar(s, c) ==
    IF s = <<>> THEN -1
    ELSE IF s[Len(s)] = c THEN Len(s) - 1
    ELSE RFindChar(SubSeq(s, 1, Len(s) - 1), c)

\* process_variable_declarations: array_spec_part of the declarator trimmed
ArraySpecPart(trimmed) ==
    IF StartsWith(trimmed, <<"[">>)
    THEN SomeText(Slice(trimmed, 1, RFindChar(trimmed, "]") + 1))
    ELSE IF FindChar(trimmed, "[", 0) >= 0
    THEN SomeText(Drop(trimmed, FindChar(trimmed, "[", 0)))
    ELSE NoText

\* type_name.split('[').next().unwrap_or("").trim()
BaseType(type_name) == Trim(Head(SplitOn(type_name, "[")))

\* type_name.find('[').map(|i| &type_name[i..])
TypeArraySpec(type_name) ==
    IF FindChar(type_name, "[", 0) >= 0
    THEN SomeText(Drop(type_name, FindChar(type_name, "[", 0)))
    ELSE NoText

\* final_array_spec
FinalArraySpec(s1, s2) ==
    IF s1.some /\ s2.some THEN SomeText(s1.text \o s2.text)
    ELSE IF s1.some THEN s1
    ELSE s2

\* process_variable_declarations: the declarator trimmed is returned as it is
KeepsValue(trimmed) ==
    trimmed = <<>> \/ Contains(trimmed, <<"=">>) \/ Contains(trimmed, <<"(">>)

\* a default appended without the " = " between
WithDefaultAppended(trimmed, d) ==
    IF d.some THEN trimmed \o d.text ELSE trimmed

\* process_variable_declarations: the declarator with the default d
WithDefault(trimmed, d) ==
    IF d.some THEN trimmed \o <<" ", "=", " ">> \o d.text ELSE trimmed

\* the closure of process_variable_declarations for one part
DeclaratorWithInitializer(part, type_name, struct_defs) ==
    IF KeepsValue(Trim(part)) THEN Trim(part)
    ELSE WithDefault(Trim(part),
                     DefaultValue(BaseType(type_name),
                                  FinalArraySpec(TypeArraySpec(type_name),
                                                 ArraySpecPart(Trim(part))),
                                  struct_defs))

\* default_value is called for this part and its recursion never returns
DeclaratorOverflows(part, type_name, struct_defs) ==
    /\ ~KeepsValue(Trim(part))
    /\ MemberRecurses([array_specifier |->
                          FinalArraySpec(TypeArraySpec(type_name), ArraySpecPart(Trim(part)))])
    /\ RecursesForever(BaseType(type_name), struct_defs)

RECURSIVE DeclaratorsWithInitializers(_, _, _)
DeclaratorsWithInitializers(parts, type_name, struct_defs) ==
    IF parts = <<>> THEN <<>>
    ELSE <<DeclaratorWithInitializer(Head(parts), type_name, struct_defs)>>
         \o DeclaratorsWithInitializers(Tail(parts), type_name, struct_defs)

\* process_variable_declarations
ProcessVariableDeclarations(decl_str, type_name, struct_defs) ==
    JoinWith(DeclaratorsWithInitializers(SplitByCommas(decl_str), type_name, struct_defs),
             CommaSpace)

\* process_variable_declarations never returns
VariableDeclarationsOverflow(decl_str, type_name, struct_defs) ==
    \E k \in DOMAIN SplitByCommas(decl_str) :
       DeclaratorOverflows(SplitByCommas(decl_str)[k], type_name, struct_defs)

\* Option<((usize, usize, String), usize)> of process_type_declaration, or
\* the stack overflow of default_value
NoDeclaration == [kind |-> "none", start |-> 0, end |-> 0, text |-> <<>>]

\* a modification that takes the ';' with the declarators
DeclarationRewrittenPastEnd(type_end, semicolon_pos, decl_str, new_decl_str) ==
    IF new_decl_str # <<>> /\ new_decl_str # decl_str
    THEN [kind |-> "some", start |-> type_end, end |-> semicolon_pos + 1,
          text |-> new_decl_str]
    ELSE [kind |-> "none", start |-> 0, end |-> 0, text |-> <<>>]

\* process_type_declaration: the comparison of new_decl_str with decl_str
DeclarationRewritten(type_end, semicolon_pos, decl_str, new_decl_str) ==
    IF new_decl_str # <<>> /\ new_decl_str # decl_str
    THEN [kind |-> "some", start |-> type_end, end |-> semicolon_pos, text |-> new_decl_str]
    ELSE NoDeclaration

\* process_type_declaration from find_declaration_end on
DeclarationUpTo(s, type_name, type_end, semicolon_pos, struct_defs) ==
    IF semicolon_pos < 0 THEN NoDeclaration
    ELSE IF VariableDeclarationsOverflow(Slice(s, type_end + 1, semicolon_pos),
                                         type_name, struct_defs)
    THEN [kind |-> "overflow", start |-> 0, end |-> 0, text |-> <<>>]
    ELSE DeclarationRewritten(type_end, semicolon_pos,
                              Slice(s, type_end + 1, semicolon_pos),
                              ProcessVariableDeclarations(
                                  Slice(s, type_end + 1, semicolon_pos),
                                  type_name, struct_defs))

\* process_type_declaration after its whitespace loop, which stops at offset i
DeclarationAt(s, type_name, i, depth, struct_defs) ==
    IF AtGlobalScope(depth) /\ IsFunctionDefinition(s, i) THEN NoDeclaration
    ELSE DeclarationUpTo(s, type_name, i, FindDeclarationEnd(s, i, depth, depth),
                         struct_defs)

\* process_type_declaration(type_name, start_pos, depth, struct_defs)
ProcessTypeDeclaration(s, type_name, start_pos, depth, struct_defs) ==
    IF type_name = <<"v", "o", "i", "d">> THEN NoDeclaration
    ELSE IF (InParentheses(depth) \/ InSquareBrackets(depth))
            /\ ~InForLoopInitialization(depth)
    THEN NoDeclaration
    ELSE DeclarationAt(s, type_name, start_pos + LeadingWs(Drop(s, start_pos)),
                       depth, struct_defs)

\* the variables of the preprocessor, which the other components leave alone
preprocessor_vars ==
    <<pending, loop_line, defines, if_stack, line_number, active_buffer, output,
      error, expand_line, nest, kept, prev_stack, last_macro>>

\* the preprocessor before run
IdlePreprocessor ==
    /\ defines = NoDefines
    /\ expand_line = <<>>
    /\ pending = <<>>
    /\ loop_line = <<>>
    /\ if_stack = <<>>
    /\ line_number = 0
    /\ active_buffer = <<>>
    /\ output = <<>>
    /\ error = NoError
    /\ nest = <<>>
    /\ kept = <<>>
    /\ prev_stack = <<>>
    /\ last_macro = <<>>

(***************************************************************************)
(* a GlslDepthTracker on its own: raw is the bytes update_brackets was     *)
(* called with                                                             *)
(***************************************************************************)
TrackedBytes == {"(", ")", "{", "}", "[", "]", ";"}

InitTracker ==
    /\ raw = <<>>
    /\ pc = "track"
    /\ result = None
    /\ tracker = NewTracker
    /\ scan = NewScan
    /\ conv = NoCall
    /\ IdlePreprocessor

\* depth_tracker.update_brackets(byte)
TrackBrackets(byte) ==
    /\ Len(raw) < MaxCalls
    /\ raw' = Append(raw, byte)
    /\ tracker' = UpdateBrackets(tracker, byte)
    /\ UNCHANGED <<pc, result, scan, conv, preprocessor_vars>>

\* depth_tracker.update_for_loop(byte)
TrackForLoop(byte) ==
    /\ tracker' = UpdateForLoop(tracker, byte)
    /\ UNCHANGED <<raw, pc, result, scan, conv, preprocessor_vars>>

\* depth_tracker.start_for_loop_tracking()
TrackStartForLoop ==
    /\ tracker' = StartForLoopTracking(tracker)
    /\ UNCHANGED <<raw, pc, result, scan, conv, preprocessor_vars>>

NextTracker ==
    \/ \E byte \in TrackedBytes : TrackBrackets(byte)
    \/ \E byte \in TrackedBytes : TrackForLoop(byte)
    \/ TrackStartForLoop

SpecTracker == InitTracker /\ [][NextTracker]_vars

(***************************************************************************)
(* GlslInitializer::modifications and initialize_uninitialized_variables    *)
(***************************************************************************)
\* BUILT_IN_TYPES
BUILT_IN_TYPES ==
    { <<"f", "l", "o", "a", "t">>,
      <<"i", "n", "t">>,
      <<"u", "i", "n", "t">>,
      <<"b", "o", "o", "l">>,
      <<"v", "e", "c", "2">>,
      <<"v", "e", "c", "3">>,
      <<"v", "e", "c", "4">>,
      <<"m", "a", "t", "2">>,
      <<"m", "a", "t", "3">>,
      <<"m", "a", "t", "4">>,
      <<"m", "a", "t", "2", "x", "2">>,
      <<"m", "a", "t", "2", "x", "3">>,
      <<"m", "a", "t", "2", "x", "4">>,
      <<"m", "a", "t", "3", "x", "2">>,
      <<"m", "a", "t", "3", "x", "3">>,
      <<"m", "a", "t", "3", "x", "4">>,
      <<"m", "a", "t", "4", "x", "2">>,
      <<"m", "a", "t", "4", "x", "3">>,
      <<"m", "a", "t", "4", "x", "4">>,
      <<"i", "v", "e", "c", "2">>,
      <<"i", "v", "e", "c", "3">>,
      <<"i", "v", "e", "c", "4">>,
      <<"u", "v", "e", "c", "2">>,
      <<"u", "v", "e", "c", "3">>,
      <<"u", "v", "e", "c", "4">>,
      <<"b", "v", "e", "c", "2">>,
      <<"b", "v", "e", "c", "3">>,
      <<"b", "v", "e", "c", "4">> }

\* SKIP_QUALIFIERS
SKIP_QUALIFIERS ==
    { <<"c", "o", "n", "s", "t">>,
      <<"u", "n", "i", "f", "o", "r", "m">>,
      <<"i", "n">>,
      <<"o", "u", "t">>,
      <<"v", "a", "r", "y", "i", "n", "g">> }

KwFor == <<"f", "o", "r">>

KwStruct == <<"s", "t", "r", "u", "c", "t">>

\* the byte the loop of modifications is at
ScanByte == raw[scan.i + 1]

\* the loop of modifications runs
Scanning == pc = "scan" /\ scan.i < Len(raw)

\* depth_tracker once the byte is counted, with the for-loop tracking started
\* when a parenthesis was expected
DepthAfter(t, byte, expect_for_paren) ==
    IF InParentheses(UpdateForLoop(UpdateBrackets(t, byte), byte)) /\ expect_for_paren
    THEN StartForLoopTracking(UpdateForLoop(UpdateBrackets(t, byte), byte))
    ELSE UpdateForLoop(UpdateBrackets(t, byte), byte)

\* expect_for_paren once the byte is counted
ExpectAfter(t, byte, expect_for_paren) ==
    expect_for_paren /\ ~InParentheses(UpdateForLoop(UpdateBrackets(t, byte), byte))

\* the token read_identifier returns at the byte
ScanToken == Slice(raw, scan.i + 1, ReadIdentifier(raw, scan.i))

\* the loop is at the first byte of an identifier, outside a string
AtIdentifier ==
    /\ Scanning
    /\ scan.state = "Normal"
    /\ IsIdentifierStart(ScanByte)

\* the qualifier test of modifications
QualifierArm(token, depth) == token \in SKIP_QUALIFIERS /\ AtGlobalScope(depth)

\* the arm of modifications for '"' outside a string
OpenString ==
    /\ Scanning
    /\ scan.state = "Normal"
    /\ ScanByte = "\""
    /\ scan' = [scan EXCEPT !.state = "InString", !.i = @ + 1]
    /\ UNCHANGED <<raw, pc, result, tracker, conv, preprocessor_vars>>

\* the arm of modifications for '#'
ScanDirective ==
    /\ Scanning
    /\ scan.state = "Normal"
    /\ ScanByte = "#"
    /\ scan' = [scan EXCEPT !.i = SkipPreprocessorDirective(raw, @)]
    /\ UNCHANGED <<raw, pc, result, tracker, conv, preprocessor_vars>>

\* a byte that starts no identifier
ScanOther ==
    /\ Scanning
    /\ scan.state = "Normal"
    /\ ScanByte \notin {"\"", "#"}
    /\ ~IsIdentifierStart(ScanByte)
    /\ tracker' = DepthAfter(tracker, ScanByte, scan.expect_for_paren)
    /\ scan' = [scan EXCEPT !.i = @ + 1,
                            !.expect_for_paren = ExpectAfter(tracker, ScanByte, @)]
    /\ UNCHANGED <<raw, pc, result, conv, preprocessor_vars>>

\* the token "for"
ScanFor ==
    /\ AtIdentifier
    /\ ScanToken = KwFor
    /\ tracker' = DepthAfter(tracker, ScanByte, scan.expect_for_paren)
    /\ scan' = [scan EXCEPT !.i = ReadIdentifier(raw, @), !.expect_for_paren = TRUE]
    /\ UNCHANGED <<raw, pc, result, conv, preprocessor_vars>>

\* the token "struct", parsed being what parse_struct_definition leaves
ScanStructAfter(parsed) ==
    /\ pc' = IF parsed.panic THEN "panic" ELSE pc
    /\ scan' = [scan EXCEPT !.i = parsed.i,
                            !.struct_defs = parsed.struct_defs,
                            !.expect_for_paren = ExpectAfter(tracker, ScanByte, @)]

ScanStruct ==
    /\ AtIdentifier
    /\ ScanToken = KwStruct
    /\ tracker' = DepthAfter(tracker, ScanByte, scan.expect_for_paren)
    /\ ScanStructAfter(ParseStructDefinition(raw, scan.struct_defs,
                                             ReadIdentifier(raw, scan.i)))
    /\ UNCHANGED <<raw, result, conv, preprocessor_vars>>

\* a storage qualifier at global scope
ScanQualifier ==
    /\ AtIdentifier
    /\ ScanToken \notin {KwFor, KwStruct}
    /\ QualifierArm(ScanToken, DepthAfter(tracker, ScanByte, scan.expect_for_paren))
    /\ tracker' = DepthAfter(tracker, ScanByte, scan.expect_for_paren)
    /\ scan' = [scan EXCEPT !.i = SkipToDeclarationEnd(raw, ReadIdentifier(raw, @)),
                            !.expect_for_paren = ExpectAfter(tracker, ScanByte, @)]
    /\ UNCHANGED <<raw, pc, result, conv, preprocessor_vars>>

\* the token is a built-in type or a registered struct and no earlier arm
\* takes it
AtType ==
    /\ AtIdentifier
    /\ ScanToken \notin {KwFor, KwStruct}
    /\ ~QualifierArm(ScanToken, DepthAfter(tracker, ScanByte, scan.expect_for_paren))
    /\ ScanToken \in BUILT_IN_TYPES \cup DOMAIN scan.struct_defs

\* a list that takes the modification d in front
PushedInFront(modifications, d) ==
    <<[start |-> d.start, end |-> d.end, text |-> d.text]>> \o modifications

\* modifications.push(modification)
Pushed(modifications, d) ==
    Append(modifications, [start |-> d.start, end |-> d.end, text |-> d.text])

\* modifications after process_type_declaration returned d
ScanTypeAfter(d) ==
    /\ pc' = IF d.kind = "overflow" THEN "overflow" ELSE pc
    /\ scan' = [scan EXCEPT !.i = IF d.kind = "some" THEN d.end + 1
                                   ELSE ReadIdentifier(raw, @),
                            !.modifications =
                                IF d.kind = "some" THEN Pushed(@, d) ELSE @,
                            !.expect_for_paren = ExpectAfter(tracker, ScanByte, @)]

\* a type name
ScanType ==
    /\ AtType
    /\ tracker' = DepthAfter(tracker, ScanByte, scan.expect_for_paren)
    /\ ScanTypeAfter(ProcessTypeDeclaration(
                         raw, ScanToken, ReadIdentifier(raw, scan.i),
                         DepthAfter(tracker, ScanByte, scan.expect_for_paren),
                         scan.struct_defs))
    /\ UNCHANGED <<raw, result, conv, preprocessor_vars>>

\* any other identifier
ScanIdentifier ==
    /\ AtIdentifier
    /\ ScanToken \notin {KwFor, KwStruct}
    /\ ~QualifierArm(ScanToken, DepthAfter(tracker, ScanByte, scan.expect_for_paren))
    /\ ScanToken \notin BUILT_IN_TYPES \cup DOMAIN scan.struct_defs
    /\ tracker' = DepthAfter(tracker, ScanByte, scan.expect_for_paren)
    /\ scan' = [scan EXCEPT !.i = ReadIdentifier(raw, @),
                            !.expect_for_paren = ExpectAfter(tracker, ScanByte, @)]
    /\ UNCHANGED <<raw, pc, result, conv, preprocessor_vars>>

\* the arm of modifications inside a string
ScanString ==
    /\ Scanning
    /\ scan.state = "InString"
    /\ scan' = [scan EXCEPT !.state = IF ScanByte = "\"" THEN "Normal" ELSE @,
                            !.i = IF ScanByte = "\\" /\ @ + 1 < Len(raw)
                                  THEN @ + 2 ELSE @ + 1]
    /\ UNCHANGED <<raw, pc, result, tracker, conv, preprocessor_vars>>

\* the modifications applied from the last to the first
RECURSIVE ApplyModifications(_, _)
ApplyModifications(source, modifications) ==
    IF modifications = <<>> THEN source
    ELSE ApplyModifications(
             ReplaceRange(source, modifications[Len(modifications)].start,
                          modifications[Len(modifications)].end,
                          modifications[Len(modifications)].text),
             SubSeq(modifications, 1, Len(modifications) - 1))

\* filter(|line| !line.trim().is_empty())
RECURSIVE NonBlank(_)
NonBlank(ls) ==
    IF ls = <<>> THEN <<>>
    ELSE (IF Trim(Head(ls)) = <<>> THEN <<>> ELSE <<Head(ls)>>) \o NonBlank(Tail(ls))

\* lines().filter(..).collect().join("\n")
WithoutBlankLines(source) == JoinWith(NonBlank(Lines(source)), <<"\n">>)

\* initialize_uninitialized_variables once modifications returned
Initialized(source, modifications) ==
    WithoutBlankLines(ApplyModifications(source, modifications))

\* the end of the loop and the rest of initialize_uninitialized_variables
ScanFinish ==
    /\ pc = "scan"
    /\ scan.i >= Len(raw)
    /\ pc' = "initialized"
    /\ result' = <<Initialized(raw, scan.modifications)>>
    /\ UNCHANGED <<raw, tracker, scan, conv, preprocessor_vars>>

\* lines preprocess can return: code without comments, no line a directive
DeclarationLines ==
    { <<"f", "l", "o", "a", "t", " ", "a", ",", " ", "b", "=", "1", ".", "0", ";">>,
      <<"i", "n", "t", " ", "x", "=", "1", " ", ",", " ", "y", "=", "2", ";">>,
      <<"u", "n", "i", "f", "o", "r", "m", " ", "v", "e", "c", "2", " ", "u", ";", " ",
        "b", "v", "e", "c", "2", " ", "q", ";">>,
      <<"c", "o", "n", "s", "t", " ", "u", "i", "n", "t", " ", "k", "=", "1", "u", ";",
        " ", "u", "v", "e", "c", "2", " ", "z", ";">>,
      <<")">>,
      <<"{", " ", "o", "u", "t", " ", "i", "v", "e", "c", "2", " ", "v", ";", " ", "u",
        "i", "n", "t", " ", "w", ";", " ", "}">>,
      <<"v", "o", "i", "d", " ", "f", "(", "v", "e", "c", "3", " ", "p", ")", " ", "{",
        " ", "m", "a", "t", "2", " ", "m", ";", " ", "}">>,
      <<"v", "e", "c", "2", " ", "g", "(", "i", "n", "t", " ", "n", ")", " ", "{", " ",
        "i", "n", "t", " ", "c", ";", " ", "{", " ", "b", "o", "o", "l", " ", "b", ";",
        " ", "}", " ", "}">>,
      <<"i", "n", "t", " ", "h", "(", "i", "n", "t", " ", "a", ")", ";">>,
      <<"f", "o", "r", "(", "i", "n", "t", " ", "i", ";", " ", "i", "n", "t", "(", "i",
        ")", "<", "2", ",", " ", "j", ";", ")", " ", "{", "}">>,
      <<"f", "o", "r", "(", "i", "n", "t", " ", "k", "=", "0", ";", " ", "k", "<", "2",
        ";", " ", "k", "+", "+", ")", " ", "{", "}">>,
      <<"f", "o", "r", "(", "i", "n", "t", " ", "i", ";", " ", "i", "<", "2", ";", ")",
        " ", "f", "(", "v", "e", "c", "4", "(", "1", ")", ")", ";">>,
      <<"s", "t", "r", "u", "c", "t", " ", "S", " ", "{", " ", "v", "e", "c", "2", " ",
        "p", ";", " ", "i", "n", "t", " ", "c", ",", " ", "d", ";", " ", "}", ";">>,
      <<"S", " ", "s", ";">>,
      <<"s", "t", "r", "u", "c", "t", " ", "T", " ", "{", " ", "S", " ", "s", ";", " ",
        "b", "o", "o", "l", " ", "n", ";", " ", "}", ";", " ", "T", " ", "t", ";">>,
      <<"s", "t", "r", "u", "c", "t", " ", "m", "a", "t", "t", "e", " ", "{", " ", "b",
        "o", "o", "l", " ", "k", ";", " ", "}", ";", " ", "m", "a", "t", "t", "e", " ",
        "m", ";">>,
      <<"s", "t", "r", "u", "c", "t", " ", "U", " ", "{", " ", "s", "a", "m", "p", "l",
        "e", "r", "2", "D", " ", "t", ";", " ", "i", "n", "t", " ", "n", ";", " ", "}",
        ";", " ", "U", " ", "u", ";">>,
      <<"s", "t", "r", "u", "c", "t", " ", "A", " ", "{", " ", "A", " ", "a", ";", " ",
        "}", ";", " ", "A", " ", "x", ";">>,
      <<"i", "n", "t", "[", "2", "]", "[", "3", "]", " ", "g", ";">>,
      <<"f", "l", "o", "a", "t", " ", "a", "[", "N", "]", "[", "2", "]", ",", " ", "z",
        "[", "0", "]", ";">>,
      <<"i", "n", "t", "[", "2", "]", " ", "c", ",", " ", "e", ";">>,
      <<"s", "t", "r", "u", "c", "t">>,
      <<"\"", "a", "\\", "\"", ";", "\"", " ", "e", " ", "#", "i", "n", "t", " ", "g", ";">>,
      <<>>,
      <<" ", " ">> }

\* the constructs a source can end in without their end: a block comment, a
\* string, a struct body, a declaration
UnterminatedEnds ==
    { <<>>,
      <<"/", "*", " ", "x">>,
      <<"\"", "b">>,
      <<"s", "t", "r", "u", "c", "t", " ", "V", " ", "{", " ", "i", "n", "t", " ", "n", ";">>,
      <<"b", "o", "o", "l", " ", "o">> }

\* what preprocess returns for these lines when no macro is defined, and the
\* same followed by a construct that has no end
InitializerSources ==
    {JoinLines(ls) \o end :
        ls \in UNION {[1..n -> DeclarationLines] : n \in 0..MaxDecls},
        end \in UnterminatedEnds}

InitInitializer ==
    /\ raw \in InitializerSources
    /\ pc = "scan"
    /\ result = None
    /\ tracker = NewTracker
    /\ scan = NewScan
    /\ conv = NoCall
    /\ IdlePreprocessor

NextInitializer ==
    \/ OpenString
    \/ ScanDirective
    \/ ScanOther
    \/ ScanFor
    \/ ScanStruct
    \/ ScanQualifier
    \/ ScanType
    \/ ScanIdentifier
    \/ ScanString
    \/ ScanFinish

SpecInitializer == InitInitializer /\ [][NextInitializer]_vars

(***************************************************************************)
(* replace_in_preprocessor_conditionals and to_glsl_version                *)
(***************************************************************************)
\* DIFF_RESERVED_WORDS_4_2
DIFF_RESERVED_WORDS_4_2 ==
    << <<"d", "o", "u", "b", "l", "e">>,
       <<"d", "v", "e", "c", "2">>,
       <<"d", "v", "e", "c", "3">>,
       <<"d", "v", "e", "c", "4">>,
       <<"d", "m", "a", "t", "2">>,
       <<"d", "m", "a", "t", "3">>,
       <<"d", "m", "a", "t", "4">>,
       <<"d", "m", "a", "t", "2", "x", "2">>,
       <<"d", "m", "a", "t", "2", "x", "3">>,
       <<"d", "m", "a", "t", "2", "x", "4">>,
       <<"d", "m", "a", "t", "3", "x", "2">>,
       <<"d", "m", "a", "t", "3", "x", "3">>,
       <<"d", "m", "a", "t", "3", "x", "4">>,
       <<"d", "m", "a", "t", "4", "x", "2">>,
       <<"d", "m", "a", "t", "4", "x", "3">>,
       <<"d", "m", "a", "t", "4", "x", "4">>,
       <<"i", "m", "a", "g", "e", "C", "u", "b", "e", "A", "r", "r", "a", "y">>,
       <<"i", "i", "m", "a", "g", "e", "C", "u", "b", "e", "A", "r", "r", "a", "y">>,
       <<"u", "i", "m", "a", "g", "e", "C", "u", "b", "e", "A", "r", "r", "a", "y">>,
       <<"i", "m", "a", "g", "e", "2", "D", "M", "S">>,
       <<"i", "i", "m", "a", "g", "e", "2", "D", "M", "S">>,
       <<"u", "i", "m", "a", "g", "e", "2", "D", "M", "S">>,
       <<"i", "m", "a", "g", "e", "2", "D", "M", "S", "A", "r", "r", "a", "y">>,
       <<"i", "i", "m", "a", "g", "e", "2", "D", "M", "S", "A", "r", "r", "a", "y">>,
       <<"u", "i", "m", "a", "g", "e", "2", "D", "M", "S", "A", "r", "r", "a", "y">>,
       <<"u", "a", "d", "d", "C", "a", "r", "r", "y">>,
       <<"u", "s", "u", "b", "B", "o", "r", "r", "o", "w">>,
       <<"u", "m", "u", "l", "E", "x", "t", "e", "n", "d", "e", "d">>,
       <<"i", "m", "u", "l", "E", "x", "t", "e", "n", "d", "e", "d">>,
       <<"b", "i", "t", "f", "i", "e", "l", "d", "E", "x", "t", "r", "a", "c", "t">>,
       <<"b", "i", "t", "f", "i", "e", "l", "d", "I", "n", "s", "e", "r", "t">>,
       <<"b", "i", "t", "f", "i", "e", "l", "d", "R", "e", "v", "e", "r", "s", "e">>,
       <<"b", "i", "t", "C", "o", "u", "n", "t">>,
       <<"f", "i", "n", "d", "L", "S", "B">>,
       <<"f", "i", "n", "d", "M", "S", "B">>,
       <<"t", "e", "x", "t", "u", "r", "e", "Q", "u", "e", "r", "y", "L", "o", "d">>,
       <<"t", "e", "x", "t", "u", "r", "e", "G", "a", "t", "h", "e", "r">>,
       <<"t", "e", "x", "t", "u", "r", "e", "G", "a", "t", "h", "e", "O", "f", "f", "s",
         "e", "t">>,
       <<"t", "e", "x", "t", "u", "r", "e", "G", "a", "t", "h", "e", "r", "O", "f", "f",
         "s", "e", "t", "s">>,
       <<"a", "t", "o", "m", "i", "c", "C", "o", "u", "n", "t", "e", "r", "I", "n", "c",
         "r", "e", "m", "e", "n", "t">>,
       <<"a", "t", "o", "m", "i", "c", "C", "o", "u", "n", "t", "e", "r", "D", "e", "c",
         "r", "e", "m", "e", "n", "t">>,
       <<"a", "t", "o", "m", "i", "c", "C", "o", "u", "n", "t", "e", "r">>,
       <<"i", "m", "a", "g", "e", "L", "o", "a", "d">>,
       <<"i", "m", "a", "g", "e", "S", "t", "o", "r", "e">>,
       <<"i", "m", "a", "g", "e", "A", "t", "o", "m", "i", "c", "A", "d", "d">>,
       <<"i", "m", "a", "g", "e", "A", "t", "o", "m", "i", "c", "M", "i", "n">>,
       <<"i", "m", "a", "g", "e", "A", "t", "o", "m", "i", "c", "M", "a", "x">>,
       <<"i", "m", "a", "g", "e", "A", "t", "o", "m", "i", "c", "A", "n", "d">>,
       <<"i", "m", "a", "g", "e", "A", "t", "o", "m", "i", "c", "O", "r">>,
       <<"i", "m", "a", "g", "e", "A", "t", "o", "m", "i", "c", "X", "o", "r">>,
       <<"i", "m", "a", "g", "e", "A", "t", "o", "m", "i", "c", "E", "x", "c", "h", "a",
         "n", "g", "e">>,
       <<"i", "m", "a", "g", "e", "A", "t", "o", "m", "i", "c", "C", "o", "m", "p", "S",
         "w", "a", "p">>,
       <<"i", "m", "a", "g", "e", "A", "t", "o", "m", "i", "c", "C", "o", "m", "p", "S",
         "w", "a", "p">>,
       <<"i", "n", "t", "e", "r", "p", "o", "l", "a", "t", "e", "A", "t", "C", "e", "n",
         "t", "r", "o", "i", "d">>,
       <<"i", "n", "t", "e", "r", "p", "o", "l", "a", "t", "e", "A", "t", "S", "a", "m",
         "p", "l", "e">>,
       <<"i", "n", "t", "e", "r", "p", "o", "l", "a", "t", "e", "A", "t", "O", "f", "f",
         "s", "e", "t">>,
       <<"n", "o", "i", "s", "e", "1">>,
       <<"n", "o", "i", "s", "e", "2">>,
       <<"n", "o", "i", "s", "e", "3">>,
       <<"n", "o", "i", "s", "e", "4">>,
       <<"m", "e", "m", "o", "r", "y", "B", "a", "r", "r", "i", "e", "r">>,
       <<"p", "a", "c", "k", "e", "d">>,
       <<"p", "r", "e", "c", "i", "s", "e">> >>

\* DIFF_RESERVED_WORDS_3_0_ES_REV_2
DIFF_RESERVED_WORDS_3_0_ES_REV_2 ==
    << <<"p", "a", "c", "k", "e", "d">> >>

KwGlEs == <<"G", "L", "_", "E", "S">>

KwShaderbg == <<"S", "H", "A", "D", "E", "R", "B", "G">>

KwVersionMacro == <<"_", "_", "V", "E", "R", "S", "I", "O", "N", "_", "_">>

\* a match of word at offset i of text whatever stands around it
WordMatchAnywhere(text, word, i) ==
    i + Len(word) <= Len(text) /\ SubSeq(text, i + 1, i + Len(word)) = word

\* the regex \bword\b matches at offset i of text
WordMatch(text, word, i) ==
    /\ i + Len(word) <= Len(text)
    /\ SubSeq(text, i + 1, i + Len(word)) = word
    /\ i = 0 \/ ~IsIdentifierCharacter(text[i])
    /\ i + Len(word) = Len(text) \/ ~IsIdentifierCharacter(text[i + Len(word) + 1])

\* the offset of the leftmost match of \bword\b in text
FirstMatch(text, word) ==
    CHOOSE i \in 0..(Len(text) - Len(word)) :
        /\ WordMatch(text, word, i)
        /\ \A j \in 0..(i - 1) : ~WordMatch(text, word, j)

\* Regex::new(r"\bword\b").replace_all(text, to): the matches are taken from
\* left to right
RECURSIVE ReplaceWholeWord(_, _, _)
ReplaceWholeWordAt(text, word, to, i) ==
    Slice(text, 1, i) \o to \o ReplaceWholeWord(Drop(text, i + Len(word)), word, to)

ReplaceWholeWord(text, word, to) ==
    IF \E i \in 0..(Len(text) - Len(word)) : WordMatch(text, word, i)
    THEN ReplaceWholeWordAt(text, word, to, FirstMatch(text, word))
    ELSE text

\* the regex (?m)^(\s*#(?:if|elif)\s+)(.*)$ at the line start p of code, after
\* the keyword, which ends at offset k: the offset where group 2 starts, or -1
ConditionAfter(code, k) ==
    IF LeadingWs(Drop(code, k)) >= 1 THEN k + LeadingWs(Drop(code, k)) ELSE -1

\* the same from the '#', which is at offset h
ConditionFrom(code, h) ==
    IF StartsWith(Drop(code, h), <<"#", "i", "f">>) THEN ConditionAfter(code, h + 3)
    ELSE IF StartsWith(Drop(code, h), <<"#", "e", "l", "i", "f">>)
    THEN ConditionAfter(code, h + 5)
    ELSE -1

\* the same from the line start p: \s matches the line break as well
ConditionAt(code, p) == ConditionFrom(code, p + LeadingWs(Drop(code, p)))

\* the offset of the end of the line that offset p of code is in
LineEnd(code, p) == p + LineLen(Drop(code, p))

\* the offset of the start of the line after it
LineAfter(code, p) ==
    IF LineEnd(code, p) < Len(code) THEN LineEnd(code, p) + 1 ELSE Len(code)

\* replace_all of replace_in_preprocessor_conditionals from the line start p
RECURSIVE ReplaceConditionalsFrom(_, _, _, _)
ReplaceConditionalsAt(code, p, q, find, replace) ==
    IF q < 0
    THEN Slice(code, p + 1, LineAfter(code, p))
         \o ReplaceConditionalsFrom(code, LineAfter(code, p), find, replace)
    ELSE Slice(code, p + 1, q)
         \o ReplaceWholeWord(Slice(code, q + 1, LineEnd(code, q)), find, replace)
         \o Slice(code, LineEnd(code, q) + 1, LineAfter(code, q))
         \o ReplaceConditionalsFrom(code, LineAfter(code, q), find, replace)

ReplaceConditionalsFrom(code, p, find, replace) ==
    IF p >= Len(code) THEN <<>>
    ELSE ReplaceConditionalsAt(code, p, ConditionAt(code, p), find, replace)

\* replace_in_preprocessor_conditionals(code, find, replace)
ReplaceInPreprocessorConditionals(code, find, replace) ==
    ReplaceConditionalsFrom(code, 0, find, replace)

\* format!("{}{}0", version.0, version.1)
GlslVersion(version) == Decimal(version[1]) \o Decimal(version[2]) \o <<"0">>

\* rename_with_trailing_underscore(text, word)
RenameWithTrailingUnderscore(text, word) ==
    ReplaceWholeWord(text, word, word \o <<"_">>)

\* what preprocess returns for the text is its lines, each with a line break:
\* the text has no directive and no comment (and so no macro)
CodeOnly(text) ==
    /\ \A k \in DOMAIN Lines(text) : ~StartsWith(Trim(Lines(text)[k]), <<"#">>)
    /\ ~Contains(text, <<"/", "/">>)
    /\ ~Contains(text, <<"/", "*">>)

\* the two calls of replace_in_preprocessor_conditionals of to_glsl_version
Substitute ==
    /\ pc = "convert"
    /\ raw' = ReplaceInPreprocessorConditionals(
                  ReplaceInPreprocessorConditionals(conv.source, KwGlEs, KwShaderbg),
                  KwVersionMacro, GlslVersion(conv.version))
    /\ pc' = "substituted"
    /\ UNCHANGED <<result, tracker, scan, conv, preprocessor_vars>>

\* preprocess, for a text without directives and comments
PreprocessCode ==
    /\ pc = "substituted"
    /\ CodeOnly(raw)
    /\ raw' = JoinLines(Lines(raw))
    /\ pc' = "scan"
    /\ UNCHANGED <<result, tracker, scan, conv, preprocessor_vars>>

\* the text the renaming loops are at
Renamed == result[Len(result)]

\* the loop over DIFF_RESERVED_WORDS_3_0_ES_REV_2 runs
RenamingEs ==
    /\ conv.version = <<3, 0>>
    /\ conv.glsl_es
    /\ conv.word <= Len(DIFF_RESERVED_WORDS_3_0_ES_REV_2)

\* the loop over DIFF_RESERVED_WORDS_4_2 runs
RenamingDesktop ==
    /\ conv.version = <<4, 2>>
    /\ ~conv.glsl_es
    /\ conv.word <= Len(DIFF_RESERVED_WORDS_4_2)

\* an iteration of the loop over DIFF_RESERVED_WORDS_3_0_ES_REV_2
RenameEs ==
    /\ pc = "initialized"
    /\ conv # NoCall
    /\ RenamingEs
    /\ result' = <<result[1],
                   RenameWithTrailingUnderscore(
                       Renamed, DIFF_RESERVED_WORDS_3_0_ES_REV_2[conv.word])>>
    /\ conv' = [conv EXCEPT !.word = @ + 1]
    /\ UNCHANGED <<raw, pc, tracker, scan, preprocessor_vars>>

\* an iteration of the loop over DIFF_RESERVED_WORDS_4_2
RenameDesktop ==
    /\ pc = "initialized"
    /\ conv # NoCall
    /\ RenamingDesktop
    /\ result' = <<result[1],
                   RenameWithTrailingUnderscore(Renamed, DIFF_RESERVED_WORDS_4_2[conv.word])>>
    /\ conv' = [conv EXCEPT !.word = @ + 1]
    /\ UNCHANGED <<raw, pc, tracker, scan, preprocessor_vars>>

\* to_glsl_version returns
ReturnConverted ==
    /\ pc = "initialized"
    /\ conv # NoCall
    /\ ~RenamingEs
    /\ ~RenamingDesktop
    /\ pc' = "converted"
    /\ result' = <<result[1], Renamed>>
    /\ UNCHANGED <<raw, tracker, scan, conv, preprocessor_vars>>

\* sources that are code: a word of a table, or a word in a longer text
CodeSources ==
    { <<"p", "r", "e", "c", "i", "s", "e", "_", "v", "a", "r", "i", "a", "b", "l", "e">>,
      <<"f", "l", "o", "a", "t", " ", "p", "a", "c", "k", "e", "d", ";">>,
      <<"x", ".", "p", "r", "e", "c", "i", "s", "e", "=", "n", "o", "i", "s", "e", "1",
        "(", "p", "a", "c", "k", "e", "d", ")", ";">>,
      <<"t", "e", "x", "t", "u", "r", "e", "G", "a", "t", "h", "e", "r", "O", "f", "f",
        "s", "e", "t", "s", "(", "t", "e", "x", "t", "u", "r", "e", "G", "a", "t", "h",
        "e", "r", ")">>,
      <<"2", "d", "o", "u", "b", "l", "e", " ", "d", "o", "u", "b", "l", "e", "2", " ",
        "_", "d", "o", "u", "b", "l", "e", " ", "d", "o", "u", "b", "l", "e">>,
      <<"i", "m", "a", "g", "e", "A", "t", "o", "m", "i", "c", "C", "o", "m", "p", "S",
        "w", "a", "p", " ", "i", "m", "a", "g", "e", "A", "t", "o", "m", "i", "c", "C",
        "o", "m", "p", "S", "w", "a", "p">>,
      <<"u", "n", "i", "f", "o", "r", "m", " ", "f", "l", "o", "a", "t", " ", "p", "a",
        "c", "k", "e", "d", ";", " ", "s", "t", "r", "u", "c", "t", " ", "S", "{", "i",
        "n", "t", " ", "a", ";", "}", ";", " ", "S", " ", "p", "r", "e", "c", "i", "s",
        "e", ";">>,
      <<"f", "o", "r", "(", "i", "n", "t", " ", "p", "a", "c", "k", "e", "d", ";", ";",
        ")", " ", "e", "(", "\"", "n", "o", "i", "s", "e", "1", "\"", ")", " ", "#", "x">> }

\* lines of sources with conditionals
ConditionalLines ==
    { <<"#", "i", "f", " ", "G", "L", "_", "E", "S">>,
      <<"#", "e", "l", "i", "f", " ", "_", "_", "V", "E", "R", "S", "I", "O", "N", "_",
        "_", ">", "=", "3", "0", "0">>,
      <<" ", "#", "i", "f", " ", "d", "e", "f", "i", "n", "e", "d", "(", "G", "L", "_",
        "E", "S", ")", "&", "&", "!", "G", "L", "_", "E", "S", "_">>,
      <<"#", "i", "f", "d", "e", "f", " ", "G", "L", "_", "E", "S">>,
      <<"#", "d", "e", "f", "i", "n", "e", " ", "V", " ", "_", "_", "V", "E", "R", "S",
        "I", "O", "N", "_", "_">>,
      <<"x", "=", "G", "L", "_", "E", "S", "+", "_", "_", "V", "E", "R", "S", "I", "O",
        "N", "_", "_", ";">>,
      <<"#", "i", "f">>,
      <<"#", "i", "f", "(", "G", "L", "_", "E", "S", ")">>,
      <<"#", "e", "n", "d", "i", "f">>,
      <<>> }

\* the sources of the calls of to_glsl_version
VersionSources ==
    {DIFF_RESERVED_WORDS_4_2[k] : k \in DOMAIN DIFF_RESERVED_WORDS_4_2}
    \cup CodeSources
    \cup {JoinWith(ls, <<"\n">>) :
             ls \in UNION {[1..n -> ConditionalLines] : n \in 1..MaxConditionals}}

\* the targets of the calls of to_glsl_version
Versions == {<<3, 0>>, <<3, 3>>, <<4, 2>>}

InitVersion ==
    /\ conv \in [source : VersionSources, version : Versions, glsl_es : BOOLEAN,
                 word : {1}]
    /\ raw = conv.source
    /\ pc = "convert"
    /\ result = None
    /\ tracker = NewTracker
    /\ scan = NewScan
    /\ IdlePreprocessor

NextVersion ==
    \/ Substitute
    \/ PreprocessCode
    \/ OpenString
    \/ ScanDirective
    \/ ScanOther
    \/ ScanFor
    \/ ScanStruct
    \/ ScanQualifier
    \/ ScanType
    \/ ScanIdentifier
    \/ ScanString
    \/ ScanFinish
    \/ RenameEs
    \/ RenameDesktop
    \/ ReturnConverted

SpecVersion == InitVersion /\ [][NextVersion]_vars

(***************************************************************************)
(* Properties of the conditional stack                                     *)
(***************************************************************************)
\* the last line read is an #elif or an #else
AfterElifOrElse ==
    line_number > 0 /\ (HasDirective(loop_line, KwElif) \/ HasDirective(loop_line, KwElse))

\* the last line read opens a conditional group
AfterOpening ==
    /\ line_number > 0
    /\ \/ HasDirective(loop_line, KwIf)
       \/ HasDirective(loop_line, KwIfdef)
       \/ HasDirective(loop_line, KwIfndef)

C2_StackLengthIsNestingDepth ==
    pc \in {"scan", "ok"} => Len(if_stack) = Len(nest)

\* C3: a conditional group opened while the branch is inactive is pushed as
\* Done, and as long as such a group is open the branch is inactive, so that
\* no line of its branches is buffered.
C3_InactiveOpeningPushesDone ==
    pc = "scan" =>
       /\ (AfterOpening /\ ~IsActive(prev_stack)) => if_stack = Append(prev_stack, "Done")
       /\ (\E i \in 1..Len(nest) : nest[i]) => ~IsActive(if_stack)

(***************************************************************************)
(* Properties of the output and of the macro mapping                       *)
(***************************************************************************)
\* the expansion of the lines ks, each on its own with the mapping it was
\* read under
RECURSIVE ExpandedOneByOne(_)
ExpandedOneByOne(ks) ==
    IF ks = <<>> THEN <<>>
    ELSE ExpandMacros(Head(ks).line \o <<"\n">>, Head(ks).defines,
                      CHOOSE o \in IterationOrders(DOMAIN Head(ks).defines) : TRUE).line
         \o ExpandedOneByOne(Tail(ks))

\* C4: when preprocess returns Ok, the output is made of the non-directive
\* lines read while the branch was active, each once and in the order read,
\* after macro expansion; lines read while inactive and directive lines
\* contribute nothing.
C4_OutputIsActiveCodeLines ==
    pc = "ok" => output = ExpandedOneByOne(kept)

\* Ok is returned for a source with two active code lines separated by a
\* directive that changed the mapping, and a last code line read while
\* inactive
C4_Witness ==
    /\ pc = "ok"
    /\ Len(kept) = 2
    /\ kept[1].defines # kept[2].defines
    /\ ~IsDirectiveLine(loop_line)
    /\ ~IsActive(if_stack)
    /\ output # <<>>

\* C5: a #define or #undef line read while the branch is inactive leaves the
\* macro mapping as it was; read while the branch is active, #define inserts
\* or overwrites the entry of its name and #undef removes it.
C5_DefineUndefOnlyWhenActive ==
    [][(pc' = "scan" /\ line_number' = line_number + 1) =>
          LET words == SplitWhitespace(loop_line')
          IN  /\ HasDirective(loop_line', KwDefine) =>
                    defines' = IF IsActive(if_stack)
                               THEN MapInsert(defines, words[2],
                                              MacroDef(FALSE, <<>>, words[3]))
                               ELSE defines
              /\ HasDirective(loop_line', KwUndef) =>
                    defines' = IF IsActive(if_stack)
                               THEN MapRemove(defines, words[2])
                               ELSE defines]_vars

\* '#define A 1' was read while the branch was inactive and A still has the
\* body an earlier, active #define gave it
C5_Witness ==
    /\ pc = "scan"
    /\ line_number > 0
    /\ HasDirective(loop_line, KwDefine)
    /\ SplitWhitespace(loop_line)[3] = <<"1">>
    /\ ~IsActive(if_stack)
    /\ <<"A">> \in DOMAIN defines
    /\ defines[<<"A">>].body = <<"x">>

\* C6: a change of the macro mapping is not retroactive: in the output of a
\* run that returns Ok, a line `A` is the body of A if the last #define or
\* #undef in force before it is a #define of A, and is `A` itself if there is
\* none or it is an #undef.
C6_MacroChangesNotRetroactive ==
    pc = "ok" =>
       /\ Len(Lines(output)) = Len(kept)
       /\ \A k \in 1..Len(kept) :
             kept[k].line = <<"A">> =>
                Lines(output)[k] = IF kept[k].after # <<>>
                                      /\ HasDirective(kept[k].after, KwDefine)
                                   THEN SplitWhitespace(kept[k].after)[3]
                                   ELSE <<"A">>

\* Ok is returned for three lines `A`: one before the #define, one between the
\* #define and the #undef, one after the #undef
C6_Witness ==
    /\ pc = "ok"
    /\ Len(kept) = 3
    /\ \A k \in 1..3 : kept[k].line = <<"A">>
    /\ kept[1].after = <<>>
    /\ HasDirective(kept[2].after, KwDefine)
    /\ HasDirective(kept[3].after, KwUndef)
    /\ Lines(output)[2] # <<"A">>

(***************************************************************************)
(* Properties of the errors                                                *)
(***************************************************************************)
\* the text of an #error line: what follows the keyword, trimmed
ErrorText == Trim(Drop(Trim(loop_line), Len(KwError) + 1))

\* s is at least two characters long and starts and ends with the quote q
Quoted(s, q) == Len(s) >= 2 /\ s[1] = q /\ s[Len(s)] = q

\* C7: an #error line aborts the run with a PreprocessError if and only if the
\* branch is active; the message is the text with one pair of matching
\* surrounding quotes removed, 'Error directive encountered' when the text is
\* empty, and the text itself, macro names unexpanded, otherwise.
C7_ErrorDirectiveAborts ==
    (line_number > 0 /\ HasDirective(loop_line, KwError)) =>
       IF IsActive(if_stack)
       THEN /\ pc = "err"
            /\ error.line = line_number
            /\ ErrorText = <<>> =>
                  error.message = <<"E", "r", "r", "o", "r", " ", "d", "i", "r", "e", "c", "t", "i", "v", "e", " ", "e", "n", "c", "o", "u", "n", "t", "e", "r", "e", "d">>
            /\ (Quoted(ErrorText, "\"") \/ Quoted(ErrorText, "'")) =>
                  error.message = SubSeq(ErrorText, 2, Len(ErrorText) - 1)
            /\ (ErrorText # <<>> /\ ErrorText[1] \notin {"\"", "'"}) =>
                  error.message = ErrorText
       ELSE pc \in {"scan", "ok"}

\* C9: a directive whose name run does not know fails with
\* 'Unknown directive (<name>)' and the number of its line whether the branch
\* is active or not, whereas an #error line read while the branch is inactive
\* does not fail.
C9_UnknownDirectiveAlwaysFails ==
    line_number > 0 =>
       /\ (/\ IsDirectiveLine(loop_line)
           /\ GetDirectiveName(Trim(loop_line)).some
           /\ GetDirectiveName(Trim(loop_line)).name \notin KnownDirectives) =>
             /\ pc = "err"
             /\ error.line = line_number
             /\ error.message =
                   <<"U", "n", "k", "n", "o", "w", "n", " ", "d", "i", "r", "e", "c", "t", "i", "v", "e", " ", "(">>
                   \o Drop(Trim(loop_line), 1) \o <<")">>
       /\ (HasDirective(loop_line, KwError) /\ ~IsActive(if_stack)) => pc # "err"

\* the run failed on `#foo`, read while the branch was inactive
C9_Witness ==
    /\ pc = "err"
    /\ loop_line = <<"#", "f", "o", "o">>
    /\ ~IsActive(if_stack)

(***************************************************************************)
(* The line number of an error                                             *)
(***************************************************************************)
\* the first directive of the text s, read from the comment state `state`:
\* phys is the physical line reached (1 + the newlines read), dropped the
\* number of newlines read inside block comments, blank whether only
\* whitespace and comments were read since the last newline kept
RECURSIVE FirstDirective(_, _, _, _, _)
FirstDirective(s, state, phys, dropped, blank) ==
    IF s = <<>> THEN [found |-> FALSE, phys |-> phys, dropped |-> dropped]
    ELSE IF state = "InBlockComment"
    THEN IF s[1] = "*" /\ Len(s) >= 2 /\ s[2] = "/"
         THEN FirstDirective(Drop(s, 2), "Outside", phys, dropped, blank)
         ELSE IF s[1] = "\n"
         THEN FirstDirective(Tail(s), state, phys + 1, dropped + 1, blank)
         ELSE FirstDirective(Tail(s), state, phys, dropped, blank)
    ELSE IF state = "InLineComment"
    THEN IF s[1] = "\n"
         THEN FirstDirective(Tail(s), "Outside", phys + 1, dropped, TRUE)
         ELSE FirstDirective(Tail(s), state, phys, dropped, blank)
    ELSE IF s[1] = "#" /\ blank
    THEN [found |-> TRUE, phys |-> phys, dropped |-> dropped]
    ELSE IF s[1] = "\n"
    THEN FirstDirective(Tail(s), state, phys + 1, dropped, TRUE)
    ELSE IF state = "InString"
    THEN IF s[1] = "\\"
         THEN IF Len(s) >= 2 /\ s[2] = "\n"
              THEN FirstDirective(Drop(s, 2), state, phys + 1, dropped, TRUE)
              ELSE FirstDirective(Drop(s, 2), state, phys, dropped, FALSE)
         ELSE FirstDirective(Tail(s), IF s[1] = "\"" THEN "Outside" ELSE state,
                             phys, dropped, FALSE)
    ELSE IF s[1] = "/" /\ Len(s) >= 2 /\ s[2] = "/"
    THEN FirstDirective(Drop(s, 2), "InLineComment", phys, dropped, blank)
    ELSE IF s[1] = "/" /\ Len(s) >= 2 /\ s[2] = "*"
    THEN FirstDirective(Drop(s, 2), "InBlockComment", phys, dropped, blank)
    ELSE FirstDirective(Tail(s), IF s[1] = "\"" THEN "InString" ELSE state,
                        phys, dropped, blank /\ IsWhitespace(s[1]))

\* the directive run fails on, in the normalized and spliced text of raw
FailingDirective ==
    FirstDirective(SpliceLines(NormalizeLineEndings(raw)), "Outside", 1, 0, TRUE)

\* C8 as stated: the line an error reports is the physical line of its
\* directive in the normalized and spliced text, comments counted as their
\* own lines, whatever line comments or block comments precede it.
C8_LineIsPhysicalLine ==
    pc = "err" => (FailingDirective.found /\ error.line = FailingDirective.phys)

\* C8 amended: the line an error reports is the physical line of its directive
\* in the normalized and spliced text less the number of newlines that lie
\* inside the block comments before it; line comments change nothing.
C8_LineIsPhysicalLineLessDropped ==
    pc = "err" =>
       /\ FailingDirective.found
       /\ error.line = FailingDirective.phys - FailingDirective.dropped

\* the run failed on a directive that a block comment with a newline in it
\* precedes
C8_Witness ==
    /\ pc = "err"
    /\ FailingDirective.found
    /\ FailingDirective.dropped > 0

(***************************************************************************)
(* The buffer expand_macros returns                                        *)
(***************************************************************************)
\* name occurs in s at offset i as a whole word
WholeWordAt(s, name, i) ==
    /\ i + Len(name) <= Len(s)
    /\ SubSeq(s, i + 1, i + Len(name)) = name
    /\ i = 0 \/ ~IsIdentifierCharacter(s[i])
    /\ i + Len(name) = Len(s) \/ ~IsIdentifierCharacter(s[i + Len(name) + 1])

\* C10: the buffer expand_macros returns is at a fixed point: no object-like
\* macro name occurs in it as a whole word, and no function-like macro name
\* occurs in it as a whole word followed by an argument list with as many
\* arguments as the macro has parameters; BAR, defined as (FOO * 4.) with FOO
\* defined as .4, comes back as (.4 * 4.).
C10_ReturnedBufferIsFixedPoint ==
    pc = "returned" =>
       /\ \A name \in DOMAIN defines : \A i \in 0..Len(expand_line) :
             WholeWordAt(expand_line, name, i) =>
                /\ defines[name].is_func
                /\ ~ParseMacroArgs(expand_line, i + Len(name),
                                   Len(defines[name].params)).some
       /\ (raw = BAR /\ FOO \in DOMAIN defines /\ defines[FOO].body = <<".", "4">>) =>
             expand_line = <<"(", ".", "4", " ", "*", " ", "4", ".", ")">>

\* expand_macros returned for the buffer `BAR` with BAR defined through FOO
C10_Witness ==
    /\ pc = "returned"
    /\ raw = BAR
    /\ FOO \in DOMAIN defines
    /\ defines[FOO].body = <<".", "4">>
    /\ expand_line # raw

(***************************************************************************)
(* Termination of expand_macros                                            *)
(***************************************************************************)
\* the body of macro m, taken as a line, holds an invocation of macro n that
\* a pass would expand
Invokes(defs, m, n) ==
    ConsiderMatches(defs[m].body, defs, n, MatchIndices(defs[m].body, n),
                    NoExpansion).some

\* the macros reached from those of S through the invocations in bodies
RECURSIVE InvokedFrom(_, _)
InvokedFrom(defs, S) ==
    LET T == S \cup {n \in DOMAIN defs : \E m \in S : Invokes(defs, m, n)}
    IN  IF T = S THEN S ELSE InvokedFrom(defs, T)

\* macro m expands, directly or through a chain of bodies, to its own invocation
OnCycle(defs, m) ==
    \E n \in DOMAIN defs : Invokes(defs, m, n) /\ m \in InvokedFrom(defs, {n})

CyclicDefinitions(defs) == \E m \in DOMAIN defs : OnCycle(defs, m)

\* the line holds an invocation of a macro that is on a cycle
InvokesCyclic(line, defs) ==
    \E m \in DOMAIN defs :
       /\ OnCycle(defs, m)
       /\ ConsiderMatches(line, defs, m, MatchIndices(line, m), NoExpansion).some

\* a parameter of a function-like macro stands in call position in its body:
\* it is followed, after optional whitespace, by an opening parenthesis
ParamInCallPosition(defs) ==
    \E m \in DOMAIN defs : \E k \in DOMAIN defs[m].params :
       \E i \in 0..Len(defs[m].body) :
          LET param == defs[m].params[k]
              rest == Drop(defs[m].body, i + Len(param))
          IN  /\ defs[m].is_func
              /\ WholeWordAt(defs[m].body, param, i)
              /\ StartsWith(Drop(rest, LeadingWs(rest)), <<"(">>)

C11_WitnessCyclic ==
    /\ pc = "hung"
    /\ raw = FOO
    /\ defines = MapInsert(NoDefines, FOO, MacroDef(FALSE, <<>>, FOO))

(***************************************************************************)
(* Invocations of function-like macros                                     *)
(***************************************************************************)
\* the parenthesis depth after the first k characters of s
ParenDepth(s, k) ==
    Cardinality({j \in 1..k : s[j] = "("}) - Cardinality({j \in 1..k : s[j] = ")"})

\* the lengths of the prefixes of s, which starts with "(", that are balanced
BalancedPrefixes(s) == {k \in 1..Len(s) : ParenDepth(s, k) = 0}

Least(S) == CHOOSE k \in S : \A j \in S : k <= j

\* the commas of the balanced list s[1..close] that lie at depth 0 relative to
\* the invocation
TopLevelCommas(s, close) ==
    {k \in 2..(close - 1) : s[k] = "," /\ ParenDepth(s, k) = 1}

\* s[1..close] is a parenthesised list of n arguments (nothing but whitespace
\* between the parentheses when n = 0)
HasArguments(s, close, n) ==
    IF n = 0 THEN \A k \in 2..(close - 1) : IsWhitespace(s[k])
    ELSE Cardinality(TopLevelCommas(s, close)) + 1 = n

\* the offset just after the balanced list of n arguments that opens at
\* offset open of line; -1 when there is none
ArgumentListEndAt(line, open, n) ==
    IF open >= Len(line) \/ line[open + 1] # "(" THEN -1
    ELSE IF BalancedPrefixes(Drop(line, open)) = {} THEN -1
    ELSE IF HasArguments(Drop(line, open),
                         Least(BalancedPrefixes(Drop(line, open))), n)
    THEN open + Least(BalancedPrefixes(Drop(line, open)))
    ELSE -1

\* the same for the list that follows offset off after optional whitespace
ArgumentListEnd(line, off, n) ==
    ArgumentListEndAt(line, off + LeadingWs(Drop(line, off)), n)

\* the offset just after the invocation of macro name at offset i of line;
\* -1 when the line has no invocation of it there
InvocationEnd(line, defs, name, i) ==
    IF ~WholeWordAt(line, name, i) THEN -1
    ELSE IF defs[name].is_func
    THEN ArgumentListEnd(line, i + Len(name), Len(defs[name].params))
    ELSE i + Len(name)

\* the offsets of line where a macro is invoked
Invocations(line, defs) ==
    {i \in 0..Len(line) : \E name \in DOMAIN defs :
                             InvocationEnd(line, defs, name, i) >= 0}

EndsWith(s, suffix) ==
    Len(suffix) <= Len(s) /\ Drop(s, Len(s) - Len(suffix)) = suffix

\* the pass rewrote the invocation at offset i and nothing else
RewroteAt(i) ==
    /\ pc' # "returned"
    /\ Slice(expand_line', 1, i) = Slice(expand_line, 1, i)
    /\ \E name \in DOMAIN defines :
          /\ InvocationEnd(expand_line, defines, name, i) >= 0
          /\ EndsWith(expand_line',
                      Drop(expand_line, InvocationEnd(expand_line, defines, name, i)))

\* C12: a pass expands a function-like macro only where its name is followed,
\* after optional whitespace, by a balanced parenthesised argument list with
\* as many arguments (split on the commas at depth 0 of the invocation) as
\* the macro has parameters. A name that is not followed by such a list is
\* left verbatim: the pass rewrites the leftmost invocation on the line, to
\* the left or to the right of that name, and expand_macros returns only
\* when the line has no invocation left.
C12_FunctionLikeNeedsArgumentList ==
    [][pc = "expand" =>
         IF Invocations(expand_line, defines) = {}
         THEN pc' = "returned" /\ expand_line' = expand_line
         ELSE RewroteAt(Least(Invocations(expand_line, defines)))]_vars

\* `F BAR` with #define F() BAR and #define BAR x came back as `F x`
C12_Witness ==
    /\ pc = "returned"
    /\ raw = <<"F", " ">> \o BAR
    /\ <<"F">> \in DOMAIN defines
    /\ defines[<<"F">>].is_func
    /\ expand_line = <<"F", " ", "x">>

(***************************************************************************)
(* Parameter substitution                                                  *)
(***************************************************************************)
\* the words of s: its maximal runs of identifier characters, and each other
\* character on its own
WordLen(s) == LeadingIn(s, Letters \cup Digits \cup {"_"})

RECURSIVE WordsOf(_)
WordsOf(s) ==
    IF s = <<>> THEN <<>>
    ELSE IF WordLen(s) = 0 THEN <<<<Head(s)>>>> \o WordsOf(Tail(s))
    ELSE <<Slice(s, 1, WordLen(s))>> \o WordsOf(Drop(s, WordLen(s)))

\* every word that is a parameter replaced by the argument of that parameter,
\* all at once
RECURSIVE SubstituteWords(_, _, _)
SubstituteWords(words, params, args) ==
    IF words = <<>> THEN <<>>
    ELSE (IF \E k \in DOMAIN params : params[k] = Head(words)
          THEN args[Least({k \in DOMAIN params : params[k] = Head(words)})]
          ELSE Head(words))
         \o SubstituteWords(Tail(words), params, args)

\* C13: replace_params replaces every whole-word occurrence of each parameter
\* in the body by that parameter's argument, all at once: a parameter that is
\* part of a longer identifier or of a longer parameter name (X in XY) is not
\* replaced, and a parameter name inside an argument is not replaced again.
C13_ParamsReplacedAtOnce ==
    pc = "substituted" =>
       \A args \in ArgLists :
          raw = InvocationOf(args) =>
             /\ result.some
             /\ result.text = SubstituteWords(WordsOf(defines[<<"F">>].body),
                                              defines[<<"F">>].params, args)

\* F(Y,X) with #define F(X,XY) XY+X gives X+Y
C13_Witness ==
    /\ pc = "substituted"
    /\ defines[<<"F">>].params = << <<"X">>, <<"X", "Y">> >>
    /\ defines[<<"F">>].body = <<"X", "Y", "+", "X">>
    /\ raw = InvocationOf(<< <<"Y">>, <<"X">> >>)
    /\ result.text = <<"X", "+", "Y">>

(***************************************************************************)
(* The expressions of #if and #elif                                        *)
(***************************************************************************)
\* the tokens evaluate_if_expr parses for the condition text expr
TokensOf(expr) ==
    Tokenize(RemoveWhitespace(
        ExpandMacros(ReplaceDefined(expr, defines, 0), defines,
                     CHOOSE order \in IterationOrders(DOMAIN defines) : TRUE).line))

\* the level of each binary operator in the order the claim lists them,
\* lowest precedence first
BinaryOps == UNION {LevelOps[i] : i \in DOMAIN LevelOps}

ListedLevel ==
    [op \in BinaryOps |->
    CASE op = "||" -> 1 [] op = "&&" -> 2 [] op = "^^" -> 3
      [] op = "|" -> 4 [] op = "^" -> 5 [] op = "&" -> 6
      [] op \in {"==", "!="} -> 7
      [] op \in {"<", "<=", ">", ">="} -> 8
      [] op \in {"<<", ">>"} -> 9
      [] op \in {"+", "-"} -> 10
      [] op \in {"*", "/", "%"} -> 11]

\* the same with bitwise-and above equality, as the parse functions call one
\* another
CalledLevel ==
    [op \in BinaryOps |->
    CASE op = "&" -> 7 [] op \in {"==", "!="} -> 6 [] OTHER -> ListedLevel[op]]

\* tokens is a number followed by operator-number pairs
IsOperatorChain(tokens) ==
    /\ Len(tokens) % 2 = 1
    /\ \A k \in DOMAIN tokens :
          IF k % 2 = 1 THEN tokens[k].kind = "Number"
          ELSE tokens[k].kind = "Op" /\ tokens[k].op \notin {"~", "!"}

\* the operator of an operator chain that is applied last: the rightmost of
\* those of the lowest level (all binary operators associate to the left)
LastApplied(tokens, Level) ==
    CHOOSE k \in DOMAIN tokens :
       /\ k % 2 = 0
       /\ \A j \in DOMAIN tokens :
             j % 2 = 0 =>
                \/ Level[tokens[j].op] > Level[tokens[k].op]
                \/ Level[tokens[j].op] = Level[tokens[k].op] /\ j <= k

\* the value of an operator chain under the precedence Level
RECURSIVE ChainValue(_, _)
SplitValue(tokens, Level, k) ==
    ApplyBinary(tokens[k].op,
                ChainValue(SubSeq(tokens, 1, k - 1), Level),
                ChainValue(SubSeq(tokens, k + 1, Len(tokens)), Level))

ChainValue(tokens, Level) ==
    IF Len(tokens) = 1 THEN tokens[1].num
    ELSE SplitValue(tokens, Level, LastApplied(tokens, Level))

\* parse_expression gives every operator chain the value Level gives it
ParsedAs(Level, t) ==
    (t.ok /\ IsOperatorChain(t.tokens)) => result.parsed = ChainValue(t.tokens, Level)

\* C14: the binary operators bind in the listed order, from || (lowest) to
\* the multiplicative operators (highest), equality binding tighter than
\* bitwise-and; A + B * C == 25 is true with A = 10, B = 5, C = 3.
C14_PrecedenceAsListed ==
    pc = "evaluated" =>
       /\ ParsedAs(ListedLevel, TokensOf(raw))
       /\ raw = ExampleExpression => result.value

\* C14, amended: the binary operators bind in the order the parse functions
\* call one another, which is the listed order but for bitwise-and: it binds
\* tighter than equality (2 == 2 & 2 is 2 == (2 & 2)); A + B * C == 25 is
\* true with A = 10, B = 5, C = 3.
C14_PrecedenceAsCalled ==
    pc = "evaluated" =>
       /\ ParsedAs(CalledLevel, TokensOf(raw))
       /\ raw = ExampleExpression => result.value

\* 2 == 2 & 2 was evaluated, and is true
C14_Witness ==
    /\ pc = "evaluated"
    /\ raw = <<"2", "=", "=", "2", "&", "2">>
    /\ result.parsed = 1
    /\ result.value

\* raw is x / 0 or x % 0 for one of the operands x
IsDivisionByZero(expr) ==
    \E x \in EdgeOperands : \E op \in {<<"/">>, <<"%">>} : expr = x \o op \o <<"0">>

\* C15: a / 0 and a % 0 are 0 for every integer a, the minimum and the
\* maximum included: the evaluation never fails, and the condition is false.
C15_DivisionByZeroIsZero ==
    IsDivisionByZero(raw) =>
       /\ pc \in {"evaluate", "evaluated"}
       /\ pc = "evaluated" => (result.parsed = 0 /\ ~result.value)

\* the minimum integer divided by 0 was evaluated
C15_Witness ==
    /\ pc = "evaluated"
    /\ raw = MinIntText \o <<"/", "0">>
    /\ result.parsed = 0

(***************************************************************************)
(* Wrapping arithmetic                                                     *)
(***************************************************************************)
\* the integer an operand of EdgeOperands denotes
OperandValue(x) ==
    CASE x = MinIntText -> IntMin
      [] x = MaxIntText -> IntMax
      [] x = <<"-", "1">> -> -1
      [] x = <<"0">> -> 0
      [] x = <<"1">> -> 1
      [] x = <<"2">> -> 2

\* the representable integer congruent to x modulo 2^IntBits
Representable(x) == CHOOSE r \in IntMin..IntMax : (x - r) % IntModulus = 0

\* the mathematical quotient of a by b # 0, rounded towards zero
Quotient(a, b) ==
    CHOOSE q \in (-IntModulus)..IntModulus :
       /\ Abs(a - q * b) < Abs(b)
       /\ a - q * b = 0 \/ (a - q * b < 0) = (a < 0)

\* the largest integer that is at most a / 2^n
FloorShift(a, n) ==
    CHOOSE q \in IntMin..IntMax : q * Pow2(n) <= a /\ a < (q + 1) * Pow2(n)

\* the wrapped result of a op b, op as it is written
WrappedBinary(op, a, b) ==
    CASE op = <<"+">> -> Representable(a + b)
      [] op = <<"-">> -> Representable(a - b)
      [] op = <<"*">> -> Representable(a * b)
      [] op = <<"/">> -> IF b = 0 THEN 0 ELSE Representable(Quotient(a, b))
      [] op = <<"%">> -> IF b = 0 THEN 0 ELSE Representable(a - b * Quotient(a, b))
      [] op = <<"<", "<">> -> Representable(a * Pow2(b % IntBits))
      [] op = <<">", ">">> -> FloorShift(a, b % IntBits)

WrappedUnary(u, a) ==
    IF u = <<"-">> THEN Representable(-a) ELSE Representable(-a - 1)

\* the expressions of EdgeExpressions are given their wrapped results
EdgeResultsWrapped ==
    /\ \A x \in EdgeOperands : \A y \in EdgeOperands : \A op \in ArithmeticOpTexts :
          raw = x \o op \o y =>
             result.parsed = WrappedBinary(op, OperandValue(x), OperandValue(y))
    /\ \A u \in {<<"-">>, <<"~">>} : \A x \in EdgeOperands :
          raw = u \o x => result.parsed = WrappedUnary(u, OperandValue(x))

\* C16: every arithmetic operator (+ - * / % << >>, unary - and ~) gives the
\* two's-complement wrapped result and the evaluation never aborts on
\* overflow, whatever the operands, the minimum integer included.
C16_ArithmeticWrapsNeverAborts ==
    raw \in EdgeExpressions =>
       /\ pc # "panic"
       /\ pc = "evaluated" => EdgeResultsWrapped

\* when evaluate_if_expr returns, the result is the wrapped one
ReturnedResultsWrapped ==
    (raw \in EdgeExpressions /\ pc = "evaluated") => EdgeResultsWrapped

\* the negation of the minimum integer aborted the evaluation
NegationOfMinPanicked ==
    /\ pc = "panic"
    /\ raw = <<"-">> \o MinIntText

\* the minimum integer divided by -1 wrapped to itself
MinDividedByMinusOne ==
    /\ pc = "evaluated"
    /\ raw = MinIntText \o <<"/", "-", "1">>
    /\ result.parsed = IntMin

(***************************************************************************)
(* Malformed expressions                                                   *)
(***************************************************************************)
IsUnaryOp(tok) == tok.kind = "Op" /\ tok.op \in {"~", "!", "-", "+"}

IsBinaryOp(tok) == tok.kind = "Op" /\ tok.op \in BinaryOps

\* tokens is an expression of the grammar
\*    E ::= number | ( E ) | unary-operator E | E binary-operator E
RECURSIVE IsExpression(_)
IsExpression(tokens) ==
    /\ tokens # <<>>
    /\ \/ Len(tokens) = 1 /\ tokens[1].kind = "Number"
       \/ /\ Len(tokens) >= 3
          /\ tokens[1].kind = "LParen"
          /\ tokens[Len(tokens)].kind = "RParen"
          /\ IsExpression(SubSeq(tokens, 2, Len(tokens) - 1))
       \/ IsUnaryOp(tokens[1]) /\ IsExpression(Tail(tokens))
       \/ \E k \in 2..(Len(tokens) - 1) :
             /\ IsBinaryOp(tokens[k])
             /\ IsExpression(SubSeq(tokens, 1, k - 1))
             /\ IsExpression(SubSeq(tokens, k + 1, Len(tokens)))

\* the condition text has tokens, and they are an expression
WellFormed(t) == t.ok /\ IsExpression(t.tokens)

\* C17: a malformed expression (empty, unbalanced parentheses, an operator
\* with a missing operand, an unknown character or an undefined identifier,
\* leftover tokens) is always false: a condition that is true is well formed.
C17_MalformedIsFalse ==
    (pc = "evaluated" /\ result.value) => WellFormed(TokensOf(raw))

\* a condition that has no tokens, or a character that is no token, is false
UntokenizableIsFalse ==
    (pc = "evaluated" /\ result.value) =>
       (TokensOf(raw).ok /\ TokensOf(raw).tokens # <<>>)

\* 5 + was evaluated as true
MissingOperandIsTrue ==
    /\ pc = "evaluated"
    /\ raw = <<"5", "+">>
    /\ result.value

\* (5 was evaluated as true
MissingParenIsTrue ==
    /\ pc = "evaluated"
    /\ raw = <<"(", "5">>
    /\ result.value

\* 5 ) with its leftover token was evaluated as false
LeftoverTokenIsFalse ==
    /\ pc = "evaluated"
    /\ raw = <<"5", ")">>
    /\ ~result.value

(***************************************************************************)
(* Comment stripping                                                       *)
(***************************************************************************)
\* the state strip_comments is in when it comes to each character of s (a
\* character consumed together with the one before it has the state that one
\* led to)
RECURSIVE StatesOf(_, _)
StatesOf(s, state) ==
    IF s = <<>> THEN <<>>
    ELSE IF state = "Outside"
    THEN (IF s[1] = "\"" THEN <<state>> \o StatesOf(Tail(s), "InString")
          ELSE IF s[1] = "/" /\ Len(s) >= 2 /\ s[2] = "/"
          THEN <<state, "InLineComment">> \o StatesOf(Drop(s, 2), "InLineComment")
          ELSE IF s[1] = "/" /\ Len(s) >= 2 /\ s[2] = "*"
          THEN <<state, "InBlockComment">> \o StatesOf(Drop(s, 2), "InBlockComment")
          ELSE <<state>> \o StatesOf(Tail(s), state))
    ELSE IF state = "InString"
    THEN (IF s[1] = "\\" /\ Len(s) >= 2
          THEN <<state, state>> \o StatesOf(Drop(s, 2), state)
          ELSE IF s[1] = "\"" THEN <<state>> \o StatesOf(Tail(s), "Outside")
          ELSE <<state>> \o StatesOf(Tail(s), state))
    ELSE IF state = "InLineComment"
    THEN <<state>> \o StatesOf(Tail(s), IF s[1] = "\n" THEN "Outside" ELSE state)
    ELSE IF s[1] = "*" /\ Len(s) >= 2 /\ s[2] = "/"
    THEN <<state, state>> \o StatesOf(Drop(s, 2), "Outside")
    ELSE <<state>> \o StatesOf(Tail(s), state)

\* the offsets (1-based) of the characters of s inside string literals, the
\* quotes apart
InStrings(s) ==
    {k \in DOMAIN s : StatesOf(s, "Outside")[k] = "InString"
                       /\ ~(s[k] = "\"" /\ (k = Len(s) \/ StatesOf(s, "Outside")[k + 1] = "Outside"))}

\* a string literal of s holds // or /*
CommentLikeInString(s) ==
    \E k \in InStrings(s) : s[k] = "/" /\ k < Len(s) /\ s[k + 1] \in {"/", "*"}

\* C18: comment stripping is idempotent: when no string literal of s holds a
\* comment-like sequence, strip_comments(strip_comments(s)) is
\* strip_comments(s).
C18_StripIsIdempotent ==
    (pc = "stripped_again" /\ ~CommentLikeInString(raw)) => result[2] = result[1]

\* the same without the condition on the string literals
StripIsIdempotentAlways ==
    pc = "stripped_again" => result[2] = result[1]

\* / * * / / gave a space and a slash, and gave them again
C18_Witness ==
    /\ pc = "stripped_again"
    /\ raw = <<"/", "*", "*", "/", "/">>
    /\ ~CommentLikeInString(raw)
    /\ result[1] = <<" ", "/">>
    /\ result[2] = result[1]

\* the string literals of s[k..], st being the states of s and acc the
\* literals of s[1..k-1]: a quote read outside opens a literal, a character
\* read inside a string belongs to the last one
RECURSIVE LiteralsFrom(_, _, _, _)
LiteralsFrom(s, st, k, acc) ==
    IF k > Len(s) THEN acc
    ELSE IF st[k] = "Outside" /\ s[k] = "\""
    THEN LiteralsFrom(s, st, k + 1, Append(acc, <<s[k]>>))
    ELSE IF st[k] = "InString"
    THEN LiteralsFrom(s, st, k + 1,
                      [acc EXCEPT ![Len(acc)] = Append(acc[Len(acc)], s[k])])
    ELSE LiteralsFrom(s, st, k + 1, acc)

\* the double-quoted string literals of s, quotes included, in order; a
\* backslash takes the next character with it, so an escaped quote does not
\* end a literal
StringLiterals(s) == LiteralsFrom(s, StatesOf(s, "Outside"), 1, <<>>)

\* C19: strip_comments copies the string literals verbatim: the literals of
\* its output are those of its input, whatever they hold (// and /*, a
\* backslash and the character after it, an escaped quote).
C19_StringLiteralsCopied ==
    pc = "stripped" => StringLiterals(result[1]) = StringLiterals(raw)

\* the unterminated literal "\"// came back whole: the escaped quote did not
\* end the string and the // in it started no comment
C19_Witness ==
    /\ pc = "stripped"
    /\ raw = <<"\"", "\\", "\"", "/", "/">>
    /\ StringLiterals(raw) = <<raw>>
    /\ result[1] = raw

\* the number of newline characters of s
NewlineCount(s) == Cardinality({k \in DOMAIN s : s[k] = "\n"})

\* the number of newline characters of s that are inside block comments
NewlinesInBlockComments(s) ==
    Cardinality({k \in DOMAIN s : s[k] = "\n"
                                   /\ StatesOf(s, "Outside")[k] = "InBlockComment"})

\* C20: strip_comments keeps the line structure: the result has as many
\* newline characters as the input, for every comment, line or block.
C20_NewlinesPreserved ==
    pc = "stripped" => NewlineCount(result[1]) = NewlineCount(raw)

\* C20, amended: the result has the newline characters of the input but those
\* inside block comments: a block comment becomes one space whatever it
\* spans, a line comment keeps the newline that ends it.
C20_NewlinesOutsideBlockCommentsPreserved ==
    pc = "stripped" =>
       NewlineCount(result[1]) = NewlineCount(raw) - NewlinesInBlockComments(raw)

\* a block comment that holds a newline came back as one space
C20_Witness ==
    /\ pc = "stripped"
    /\ raw = <<"/", "*", "\n", "*", "/">>
    /\ NewlinesInBlockComments(raw) = 1
    /\ result[1] = <<" ">>

\* a line comment came back as a space and its newline
LineCommentKeepsNewline ==
    /\ pc = "stripped"
    /\ raw = <<"/", "/", "a", "\n", "a">>
    /\ result[1] = <<" ", "\n", "a">>

\* s holds neither // nor /*
NoCommentStart(s) ==
    \A k \in 1..(Len(s) - 1) : ~(s[k] = "/" /\ s[k + 1] \in {"/", "*"})

\* C21: the fast path of strip_comments agrees with the state machine: for a
\* text that holds neither // nor /* the scan gives exactly the text, which is
\* what the early return gives.
C21_FastPathIsTheScan ==
    (pc \in {"scanned", "stripped"} /\ NoCommentStart(raw)) => result[1] = raw

\* the scan of a string literal with an escaped quote and a lone slash gave
\* the text back
C21_Witness ==
    /\ pc = "scanned"
    /\ raw = <<"\"", "\\", "\"", "*", "/">>
    /\ NoCommentStart(raw)
    /\ result[1] = raw

(***************************************************************************)
(* The depth tracker                                                       *)
(***************************************************************************)
\* the depth of byte's kind of bracket after the bytes s, for counters that
\* stop at zero
RECURSIVE DepthAtZero(_, _, _)
DepthAtZero(s, open, close) ==
    IF s = <<>> THEN 0
    ELSE IF s[Len(s)] = open THEN DepthAtZero(SubSeq(s, 1, Len(s) - 1), open, close) + 1
    ELSE IF s[Len(s)] = close
    THEN SubToZero(DepthAtZero(SubSeq(s, 1, Len(s) - 1), open, close))
    ELSE DepthAtZero(SubSeq(s, 1, Len(s) - 1), open, close)

\* C22: after any sequence of update_brackets calls the brace, bracket and
\* paren counters are >= 0, each stopping at zero on a closing bracket that
\* has no opener, so that at_global_scope() holds again after an unmatched
\* closer followed by balanced text.
C22_CountersStopAtZero ==
    /\ tracker.brace = DepthAtZero(raw, "{", "}")
    /\ tracker.bracket = DepthAtZero(raw, "[", "]")
    /\ tracker.paren = DepthAtZero(raw, "(", ")")
    /\ tracker.brace >= 0 /\ tracker.bracket >= 0 /\ tracker.paren >= 0

\* ) ( ) left the paren counter at -1
UnmatchedCloserStaysCounted ==
    /\ raw = <<")", "(", ")">>
    /\ tracker.paren = -1
    /\ ~AtGlobalScope(tracker)

\* what the counters are: the openers less the closers
Balance(s, open, close) ==
    Cardinality({k \in DOMAIN s : s[k] = open}) - Cardinality({k \in DOMAIN s : s[k] = close})

CountersArePlainBalance ==
    /\ tracker.brace = Balance(raw, "{", "}")
    /\ tracker.bracket = Balance(raw, "[", "]")
    /\ tracker.paren = Balance(raw, "(", ")")

(***************************************************************************)
(* The declaration initializer                                             *)
(***************************************************************************)
\* the characters c among s[a..b]
CountIn(s, c, a, b) == Cardinality({k \in a..b : s[k] = c})

\* s[a..b] leaves a bracket of the kind open unclosed, closers that have no
\* opener not being counted
Unclosed(s, a, b, open, close) ==
    \E j \in a..b : CountIn(s, open, j, b) > CountIn(s, close, j, b)

\* after s[a..b] no parenthesis, brace or square bracket is open
TextAtGlobalScope(s, a, b) ==
    /\ ~Unclosed(s, a, b, "(", ")")
    /\ ~Unclosed(s, a, b, "{", "}")
    /\ ~Unclosed(s, a, b, "[", "]")

\* the offset after the first ';' after the offset from that no bracket opened
\* since from encloses (the length of s if there is none)
QualifiedEnd(s, from) ==
    IF \E k \in (from + 1)..Len(s) : s[k] = ";" /\ TextAtGlobalScope(s, from + 1, k)
    THEN Least({k \in (from + 1)..Len(s) : s[k] = ";" /\ TextAtGlobalScope(s, from + 1, k)})
    ELSE Len(s)

\* the scan is at a storage qualifier and no bracket is open in the text
\* before it
QualifierAtGlobalScope ==
    /\ AtIdentifier
    /\ ScanToken \in SKIP_QUALIFIERS
    /\ TextAtGlobalScope(raw, 1, scan.i)

\* C23: at global scope, a declaration that starts with const, uniform, in,
\* out or varying is left as it is up to and including its terminating
\* top-level ';' (no modification is recorded for it) and the scan resumes
\* right after that ';'.
C23_QualifiedDeclarationSkipped ==
    [][QualifierAtGlobalScope
       => /\ scan'.i = QualifiedEnd(raw, ReadIdentifier(raw, scan.i))
          /\ scan'.modifications = scan.modifications]_vars

\* the same for a qualifier met while the three counters of depth_tracker are
\* zero
SkippedWhenCountersAreZero ==
    [][(AtIdentifier /\ ScanToken \in SKIP_QUALIFIERS /\ AtGlobalScope(tracker))
       => /\ scan'.i = QualifiedEnd(raw, ReadIdentifier(raw, scan.i))
          /\ scan'.modifications = scan.modifications]_vars

\* a uniform declaration after an unmatched ')' was given an initializer
QualifiedDeclarationInitialized ==
    /\ raw = JoinLines(<<<<")">>,
                         <<"u", "n", "i", "f", "o", "r", "m", " ", "v", "e", "c", "2", " ",
                           "u", ";", " ", "b", "v", "e", "c", "2", " ", "q", ";">>>>)
    /\ pc = "initialized"
    /\ Contains(result[1], <<"u", "n", "i", "f", "o", "r", "m", " ", "v", "e", "c", "2", " ",
                             "u", " ", "=", " ", "v", "e", "c", "2", "(", "0", ".", "0", ")",
                             ";">>)

\* no initializer was added: the text returned has the '=' of the source
NoInitializerAdded ==
    /\ pc = "initialized"
    /\ CountIn(result[1], "=", 1, Len(result[1])) = CountIn(raw, "=", 1, Len(raw))

NotWhitespace(c) == ~IsWhitespace(c)

\* s without its whitespace
WithoutWhitespace(s) == SelectSeq(s, NotWhitespace)

\* the declarators of the declaration text s, each trimmed
RECURSIVE TrimEach(_)
TrimEach(parts) ==
    IF parts = <<>> THEN <<>> ELSE <<Trim(Head(parts))>> \o TrimEach(Tail(parts))

Declarators(s) == TrimEach(SplitByCommas(s))

FloatConstructed ==
    { <<"v", "e", "c", "2">>,
      <<"v", "e", "c", "3">>,
      <<"v", "e", "c", "4">>,
      <<"m", "a", "t", "2">>,
      <<"m", "a", "t", "3">>,
      <<"m", "a", "t", "4">>,
      <<"m", "a", "t", "2", "x", "2">>,
      <<"m", "a", "t", "2", "x", "3">>,
      <<"m", "a", "t", "2", "x", "4">>,
      <<"m", "a", "t", "3", "x", "2">>,
      <<"m", "a", "t", "3", "x", "3">>,
      <<"m", "a", "t", "3", "x", "4">>,
      <<"m", "a", "t", "4", "x", "2">>,
      <<"m", "a", "t", "4", "x", "3">>,
      <<"m", "a", "t", "4", "x", "4">> }

IntConstructed ==
    { <<"i", "v", "e", "c", "2">>,
      <<"i", "v", "e", "c", "3">>,
      <<"i", "v", "e", "c", "4">> }

UintConstructed ==
    { <<"u", "v", "e", "c", "2">>,
      <<"u", "v", "e", "c", "3">>,
      <<"u", "v", "e", "c", "4">> }

BoolConstructed ==
    { <<"b", "v", "e", "c", "2">>,
      <<"b", "v", "e", "c", "3">>,
      <<"b", "v", "e", "c", "4">> }

\* the default the specification gives for the built-in type t
TableDefault(t) ==
    CASE t = <<"f", "l", "o", "a", "t">> -> <<"0", ".", "0">>
      [] t = <<"i", "n", "t">> -> <<"0">>
      [] t = <<"u", "i", "n", "t">> -> <<"0", "u">>
      [] t = <<"b", "o", "o", "l">> -> <<"f", "a", "l", "s", "e">>
      [] t \in FloatConstructed -> t \o <<"(", "0", ".", "0", ")">>
      [] t \in IntConstructed -> t \o <<"(", "0", ")">>
      [] t \in UintConstructed -> t \o <<"(", "0", "u", ")">>
      [] t \in BoolConstructed -> t \o <<"(", "f", "a", "l", "s", "e", ")">>

\* the number of characters of class that end s
RECURSIVE TrailingIn(_, _)
TrailingIn(s, class) ==
    IF s # <<>> /\ s[Len(s)] \in class
    THEN 1 + TrailingIn(SubSeq(s, 1, Len(s) - 1), class) ELSE 0

\* the word that ends s once the whitespace that ends s is dropped
LastWord(s) == Drop(TrimEnd(s), Len(TrimEnd(s))
                                - TrailingIn(TrimEnd(s), Letters \cup Digits \cup {"_"}))

\* the word before the declarators that start at offset start
TypeBefore(s, start) == LastWord(Slice(s, 1, start))

\* the declarator d has a value
HasValue(d) == Contains(d, <<"=">>) \/ Contains(d, <<"(">>)

\* the declarator d of the type t as it is to be returned; an array declarator
\* is not looked at here
RewrittenAs(d, t, returned) ==
    IF d = <<>> \/ HasValue(d) THEN returned = d
    ELSE IF Contains(d, <<"[">>) THEN TRUE
    ELSE returned = d \o <<" ", "=", " ">> \o TableDefault(t)

\* the declarators written come back as the declarators returned for the
\* built-in type t
AllRewrittenAs(written, t, returned) ==
    /\ Len(returned) = Len(written)
    /\ \A j \in DOMAIN written : RewrittenAs(written[j], t, returned[j])

\* the modification m rewrites a declaration as specified when t, the word
\* before it, is a built-in type
BuiltInRewritten(m, t) ==
    t \in BUILT_IN_TYPES =>
        AllRewrittenAs(Declarators(Slice(raw, m.start + 1, m.end)), t, Declarators(m.text))

\* every modification of a declaration of a built-in type gives each
\* declarator without a value the default of the type and leaves the others
DeclaratorsGetTheDefault ==
    \A k \in DOMAIN scan.modifications :
       BuiltInRewritten(scan.modifications[k], TypeBefore(raw, scan.modifications[k].start))

\* scalar_or_struct_default gives the 28 built-in types the defaults of the
\* specification
BuiltInTable ==
    \A t \in BUILT_IN_TYPES :
       ScalarOrStructDefault(t, scan.struct_defs) = SomeText(TableDefault(t))

\* where the declarators start after the token the scan is at
DeclaratorsStart ==
    ReadIdentifier(raw, scan.i) + LeadingWs(Drop(raw, ReadIdentifier(raw, scan.i)))

\* the ';' of the declaration the scan is at, counted from the depth at the
\* token (-1 if there is none)
DeclaratorsEnd ==
    FindDeclarationEnd(raw, DeclaratorsStart,
                       DepthAfter(tracker, ScanByte, scan.expect_for_paren),
                       DepthAfter(tracker, ScanByte, scan.expect_for_paren))

\* the depth d is one where a declaration can stand: outside parentheses and
\* square brackets, or in the first part of a for header
DeclarationDepth(d) ==
    ~(InParentheses(d) \/ InSquareBrackets(d)) \/ InForLoopInitialization(d)

\* the scan is at a built-in type name that starts a declaration
AtBuiltInDeclaration ==
    /\ AtType
    /\ ScanToken \in BUILT_IN_TYPES
    /\ DeclarationDepth(DepthAfter(tracker, ScanByte, scan.expect_for_paren))
    /\ ~IsFunctionDefinition(raw, DeclaratorsStart)
    /\ DeclaratorsEnd >= 0

\* one of the declarators has neither a value nor an array specifier
HasBare(declarators) ==
    \E k \in DOMAIN declarators :
       /\ declarators[k] # <<>>
       /\ ~HasValue(declarators[k])
       /\ ~Contains(declarators[k], <<"[">>)

\* C25: in a declaration of a built-in type every declarator that contains
\* neither '=' nor '(' is rewritten to 'declarator = default' with the
\* default of the declared type (0.0, 0, 0u, false, TYPE(0.0), TYPE(0),
\* TYPE(0u), TYPE(false)), and a declarator that contains '=' or '(' keeps
\* its value and receives no second initializer.
C25_BuiltInDefaults ==
    /\ [](DeclaratorsGetTheDefault /\ BuiltInTable)
    /\ [][(/\ AtBuiltInDeclaration
           /\ HasBare(Declarators(Slice(raw, DeclaratorsStart + 1, DeclaratorsEnd))))
          => /\ Len(scan'.modifications) = Len(scan.modifications) + 1
             /\ scan'.modifications[Len(scan'.modifications)].start = DeclaratorsStart
             /\ scan'.modifications[Len(scan'.modifications)].end = DeclaratorsEnd]_vars

\* float a, b=1.0; was returned as float a = 0.0, b=1.0;
C25_Witness ==
    /\ raw = <<"f", "l", "o", "a", "t", " ", "a", ",", " ", "b", "=", "1", ".", "0", ";", "\n">>
    /\ pc = "initialized"
    /\ Len(scan.modifications) = 1
    /\ result[1] = <<"f", "l", "o", "a", "t", " ", "a", " ", "=", " ", "0", ".", "0", ",", " ", "b", "=", "1", ".", "0", ";">>

\* the default the specification gives a variable of the type t: a struct
\* is looked up by its name, whatever the name; a member that is an array has
\* the default of default_value
RECURSIVE SpecifiedDefault(_, _)
RECURSIVE SpecifiedMembers(_, _)
SpecifiedMember(m, struct_defs) ==
    IF m.array_specifier.some
    THEN DefaultValue(m.type_name, m.array_specifier, struct_defs)
    ELSE SpecifiedDefault(m.type_name, struct_defs)

SpecifiedMembers(members, struct_defs) ==
    IF members = <<>> THEN <<>>
    ELSE <<SpecifiedMember(Head(members), struct_defs)>>
         \o SpecifiedMembers(Tail(members), struct_defs)

\* the constructor of the struct t from the defaults ds of its members, none
\* if one of them is none
Constructor(t, ds) ==
    IF \E k \in DOMAIN ds : ~ds[k].some THEN NoText
    ELSE SomeText(t \o <<"(">> \o JoinWith([k \in DOMAIN ds |-> ds[k].text], CommaSpace)
                  \o <<")">>)

SpecifiedDefault(t, struct_defs) ==
    IF t \in DOMAIN struct_defs
    THEN Constructor(t, SpecifiedMembers(struct_defs[t].members, struct_defs))
    ELSE IF t \in BUILT_IN_TYPES THEN SomeText(TableDefault(t))
    ELSE NoText

\* the declarator d of a struct type with the default dflt as it is to be
\* returned; an array declarator is not looked at here
StructRewrittenAs(d, dflt, returned) ==
    IF d = <<>> \/ HasValue(d) THEN returned = d
    ELSE IF Contains(d, <<"[">>) THEN TRUE
    ELSE IF dflt.some THEN returned = d \o <<" ", "=", " ">> \o dflt.text
    ELSE returned = d

AllStructRewrittenAs(written, dflt, returned) ==
    /\ Len(returned) = Len(written)
    /\ \A j \in DOMAIN written : StructRewrittenAs(written[j], dflt, returned[j])

\* the modification m rewrites a declaration as specified when t, the word
\* before it, is a registered struct
StructRewritten(m, t) ==
    t \in DOMAIN scan.struct_defs =>
        AllStructRewrittenAs(Declarators(Slice(raw, m.start + 1, m.end)),
                             SpecifiedDefault(t, scan.struct_defs), Declarators(m.text))

\* the scan is at the name of a registered struct that starts a declaration
AtStructDeclaration ==
    /\ AtType
    /\ ScanToken \in DOMAIN scan.struct_defs
    /\ DeclarationDepth(DepthAfter(tracker, ScanByte, scan.expect_for_paren))
    /\ ~IsFunctionDefinition(raw, DeclaratorsStart)
    /\ DeclaratorsEnd >= 0

\* the name t is taken for a built-in type by its first letters
NamedLikeAVector(t) == t \notin BUILT_IN_TYPES /\ NamedDefault(t).some

\* C26: a variable of a registered struct type T, whatever the name of T, is
\* given T(d1, ..., dk) with one default per member in declaration order,
\* nested structs expanded, when every member has a default, and no
\* initializer at all when the default of a member cannot be resolved.
C26_StructDefaults ==
    /\ [](\A k \in DOMAIN scan.modifications :
             StructRewritten(scan.modifications[k],
                             TypeBefore(raw, scan.modifications[k].start)))
    /\ [][(/\ AtStructDeclaration
           /\ ~RecursesForever(ScanToken, scan.struct_defs)
           /\ SpecifiedDefault(ScanToken, scan.struct_defs).some
           /\ HasBare(Declarators(Slice(raw, DeclaratorsStart + 1, DeclaratorsEnd))))
          => Len(scan'.modifications) = Len(scan.modifications) + 1]_vars

\* the same for the structs whose name does not start with vec, mat, ivec,
\* uvec or bvec
StructDefaultsUnlessNamedLikeAVector ==
    \A k \in DOMAIN scan.modifications :
       ~NamedLikeAVector(TypeBefore(raw, scan.modifications[k].start))
       => StructRewritten(scan.modifications[k],
                          TypeBefore(raw, scan.modifications[k].start))

\* the struct matte, whose member is a bool, was given matte(0.0)
StructTakenForAMatrix ==
    /\ raw = <<"s", "t", "r", "u", "c", "t", " ", "m", "a", "t", "t", "e", " ", "{", " ", "b", "o", "o", "l", " ", "k", ";", " ", "}", ";", " ", "m", "a", "t", "t", "e", " ", "m", ";", "\n">>
    /\ pc = "initialized"
    /\ result[1] = <<"s", "t", "r", "u", "c", "t", " ", "m", "a", "t", "t", "e", " ", "{", " ", "b", "o", "o", "l", " ", "k", ";", " ", "}", ";", " ", "m", "a", "t", "t", "e", " ", "m", " ", "=", " ", "m", "a", "t", "t", "e", "(", "0", ".", "0", ")", ";">>

\* T t was given the constructor of T with that of S nested
NestedStructInitialized ==
    /\ pc = "initialized"
    /\ Contains(result[1], <<"T", " ", "t", " ", "=", " ", "T", "(", "S", "(", "v", "e", "c", "2", "(", "0", ".", "0", ")", ",", " ", "0", ",", " ", "0", ")", ",", " ", "f", "a", "l", "s", "e", ")", ";">>)

\* C27: the synthesis of the default of a struct variable terminates for
\* every struct-definition mapping the scan can register from a source (the
\* recursion over the member types is bounded by the struct nesting of the
\* source).
C27_SynthesisTerminates == pc # "overflow"

\* the struct A has a member of the type A: the recursion for A x never
\* returns
SelfReferenceOverflows ==
    /\ raw = <<"s", "t", "r", "u", "c", "t", " ", "A", " ", "{", " ", "A", " ", "a", ";", " ", "}", ";", " ", "A", " ", "x", ";", "\n">>
    /\ pc = "overflow"
    /\ DOMAIN scan.struct_defs = {<<"A">>}
    /\ scan.struct_defs[<<"A">>].members[1].type_name = <<"A">>

\* where no registered struct reaches itself through its members, every
\* declaration is processed
TerminatesWithoutCycle ==
    (\A t \in DOMAIN scan.struct_defs : ~RecursesForever(t, scan.struct_defs))
    => pc # "overflow"

\* what stands between the square brackets of the declarator d, one text per
\* '[' (up to the end of d for a bracket that is not closed)
RECURSIVE Dimensions(_)
DimensionsFrom(d, open, close) ==
    IF close < 0 THEN <<Drop(d, open + 1)>>
    ELSE <<Slice(d, open + 2, close)>> \o Dimensions(Drop(d, close + 1))

Dimensions(d) ==
    IF FindChar(d, "[", 0) < 0 THEN <<>>
    ELSE DimensionsFrom(d, FindChar(d, "[", 0), FindChar(d, "]", FindChar(d, "[", 0)))

\* the dimension text is an integer literal
IsLiteral(text) ==
    Trim(text) # <<>> /\ \A k \in DOMAIN Trim(text) : Trim(text)[k] \in Digits

\* the sizes of the dimensions dimensions, all of them literals
RECURSIVE Sizes(_)
Sizes(dimensions) ==
    IF dimensions = <<>> THEN <<>>
    ELSE <<ParseDecimal(Trim(Head(dimensions)), 0)>> \o Sizes(Tail(dimensions))

\* every dimension of the declarator d is a positive integer literal
PositiveLiterals(d) ==
    \A k \in DOMAIN Dimensions(d) :
       IsLiteral(Dimensions(d)[k]) /\ ParseDecimal(Trim(Dimensions(d)[k]), 0) > 0

\* BASE[d1]...[dk](e, ..., e) with dk elements e, each the constructor for
\* [d1]...[d(k-1)]; base_default for no dimension
RECURSIVE NestedConstructor(_, _, _)
NestedConstructor(base, sizes, base_default) ==
    IF sizes = <<>> THEN base_default
    ELSE base \o DimsText(sizes) \o <<"(">>
         \o JoinWith([j \in 1..sizes[Len(sizes)] |->
                         NestedConstructor(base, SubSeq(sizes, 1, Len(sizes) - 1),
                                           base_default)],
                     CommaSpace)
         \o <<")">>

\* the array declarator d of the type t, whose default is dflt, as it is to be
\* returned
ArrayRewrittenAs(d, t, dflt, returned) ==
    IF d = <<>> \/ HasValue(d) \/ ~Contains(d, <<"[">>) THEN TRUE
    ELSE IF PositiveLiterals(d) /\ dflt.some
    THEN returned = d \o <<" ", "=", " ">>
                    \o NestedConstructor(t, Sizes(Dimensions(d)), dflt.text)
    ELSE returned = d

AllArraysRewrittenAs(written, t, dflt, returned) ==
    /\ Len(returned) = Len(written)
    /\ \A j \in DOMAIN written : ArrayRewrittenAs(written[j], t, dflt, returned[j])

\* the modification m rewrites the array declarators of a declaration of the
\* type t as specified
ArraysRewritten(m, t) ==
    AllArraysRewrittenAs(Declarators(Slice(raw, m.start + 1, m.end)), t,
                         ScalarOrStructDefault(t, scan.struct_defs), Declarators(m.text))

\* one of the declarators is an array without value whose dimensions are all
\* positive literals
HasSizedArray(declarators) ==
    \E k \in DOMAIN declarators :
       /\ ~HasValue(declarators[k])
       /\ Contains(declarators[k], <<"[">>)
       /\ PositiveLiterals(declarators[k])

\* the scan is at a built-in type name before a declaration with such an array
AtSizedArray ==
    /\ AtBuiltInDeclaration
    /\ HasSizedArray(Declarators(Slice(raw, DeclaratorsStart + 1, DeclaratorsEnd)))

\* C28: an array declarator without value, with the dimensions [d1]...[dk],
\* is given an initializer exactly when every dimension is a positive integer
\* literal, and then BASE[d1]...[dk](e, ..., e) with dk elements, each the
\* initializer of the array [d1]...[d(k-1)]; with a dimension that is 0 or has
\* no literal size it is given no initializer, and none of another rank.
C28_ArrayInitializers ==
    /\ [](\A k \in DOMAIN scan.modifications :
             ArraysRewritten(scan.modifications[k],
                             TypeBefore(raw, scan.modifications[k].start)))
    /\ [][AtSizedArray
          => Len(scan'.modifications) = Len(scan.modifications) + 1]_vars

\* every dimension of the declarator d is an integer literal
AllLiterals(d) == \A k \in DOMAIN Dimensions(d) : IsLiteral(Dimensions(d)[k])

\* the same for the declarations whose dimensions are all integer literals
ArraysWithLiteralSizes ==
    \A k \in DOMAIN scan.modifications :
       (\A j \in DOMAIN Declarators(Slice(raw, scan.modifications[k].start + 1,
                                          scan.modifications[k].end)) :
           AllLiterals(Declarators(Slice(raw, scan.modifications[k].start + 1,
                                         scan.modifications[k].end))[j]))
       => ArraysRewritten(scan.modifications[k],
                          TypeBefore(raw, scan.modifications[k].start))

\* float a[N][2] was given the constructor of a float[2]
ArrayOfAnotherRank ==
    /\ raw = <<"f", "l", "o", "a", "t", " ", "a", "[", "N", "]", "[", "2", "]", ",", " ", "z", "[", "0", "]", ";", "\n">>
    /\ pc = "initialized"
    /\ result[1] = <<"f", "l", "o", "a", "t", " ", "a", "[", "N", "]", "[", "2", "]", " ", "=", " ", "f", "l", "o", "a", "t", "[", "2", "]", "(", "0", ".", "0", ",", " ", "0", ".", "0", ")", ",", " ", "z", "[", "0", "]", ";">>

\* int[2][3] g was given three elements int[2](0, 0)
TwoDimensionsInitialized ==
    /\ raw = <<"i", "n", "t", "[", "2", "]", "[", "3", "]", " ", "g", ";", "\n">>
    /\ pc = "initialized"
    /\ result[1] = <<"i", "n", "t", "[", "2", "]", "[", "3", "]", " ", "g", " ", "=", " ", "i", "n", "t", "[", "2", "]", "[", "3", "]", "(", "i", "n", "t", "[", "2", "]", "(", "0", ",", " ", "0", ")", ",", " ", "i", "n", "t", "[", "2", "]", "(", "0", ",", " ", "0", ")", ",", " ", "i", "n", "t", "[", "2", "]", "(", "0", ",", " ", "0", ")", ")", ";">>

(***************************************************************************)
(* The conversion to a GLSL version                                        *)
(***************************************************************************)
\* the number of leading identifier characters of s
RECURSIVE LeadingIdentifier(_)
LeadingIdentifier(s) ==
    IF s # <<>> /\ IsIdentifierCharacter(Head(s))
    THEN 1 + LeadingIdentifier(Tail(s))
    ELSE 0

\* the number of leading characters of s that are not identifier characters
RECURSIVE LeadingOther(_)
LeadingOther(s) ==
    IF s # <<>> /\ ~IsIdentifierCharacter(Head(s)) THEN 1 + LeadingOther(Tail(s)) ELSE 0

\* text read once from left to right: an identifier that is one of words has
\* one '_' appended, everything else is copied
RECURSIVE OnePass(_, _)
OnePassIdentifier(text, words, n) ==
    Slice(text, 1, n)
    \o (IF Slice(text, 1, n) \in words THEN <<"_">> ELSE <<>>)
    \o OnePass(Drop(text, n), words)

OnePassOther(text, words, n) == Slice(text, 1, n) \o OnePass(Drop(text, n), words)

OnePass(text, words) ==
    IF text = <<>> THEN <<>>
    ELSE IF IsIdentifierCharacter(Head(text))
    THEN OnePassIdentifier(text, words, LeadingIdentifier(text))
    ELSE OnePassOther(text, words, LeadingOther(text))

\* the words of the table of a target, none for a target without a table
TableOf(version, glsl_es) ==
    IF version = <<4, 2>> /\ ~glsl_es
    THEN {DIFF_RESERVED_WORDS_4_2[k] : k \in DOMAIN DIFF_RESERVED_WORDS_4_2}
    ELSE IF version = <<3, 0>> /\ glsl_es
    THEN {DIFF_RESERVED_WORDS_3_0_ES_REV_2[k] :
             k \in DOMAIN DIFF_RESERVED_WORDS_3_0_ES_REV_2}
    ELSE {}

\* C29: the text to_glsl_version returns is the text the declaration
\* initializer returned with one '_' appended to every whole-word occurrence of
\* a word of the table of the target, a word the table lists twice included,
\* and nothing else changed: an occurrence inside a longer identifier stays,
\* and a target without a table renames nothing.
C29_RenamingIsExact ==
    pc = "converted" =>
       /\ result[2] = OnePass(result[1], TableOf(conv.version, conv.glsl_es))
       /\ TableOf(conv.version, conv.glsl_es) = {} => result[2] = result[1]

\* a word the table lists twice, twice in a source, has been renamed for the
\* desktop target 4.20
C29_Witness ==
    /\ pc = "converted"
    /\ conv.version = <<4, 2>>
    /\ ~conv.glsl_es
    /\ conv.source =
       <<"i", "m", "a", "g", "e", "A", "t", "o", "m", "i", "c", "C", "o", "m", "p", "S",
         "w", "a", "p", " ", "i", "m", "a", "g", "e", "A", "t", "o", "m", "i", "c", "C",
         "o", "m", "p", "S", "w", "a", "p">>
    /\ result[2] =
       <<"i", "m", "a", "g", "e", "A", "t", "o", "m", "i", "c", "C", "o", "m", "p", "S",
         "w", "a", "p", "_", " ", "i", "m", "a", "g", "e", "A", "t", "o", "m", "i", "c",
         "C", "o", "m", "p", "S", "w", "a", "p", "_">>

\* the identifier s as the substitution of to_glsl_version leaves it
SubstitutedWord(s, version) ==
    IF s = KwGlEs THEN KwShaderbg
    ELSE IF s = KwVersionMacro THEN GlslVersion(version)
    ELSE s

\* a condition read once from left to right: the identifiers GL_ES and
\* __VERSION__ are substituted, everything else is copied
RECURSIVE SubstitutedCondition(_, _)
SubstitutedIdentifier(s, version, n) ==
    SubstitutedWord(Slice(s, 1, n), version) \o SubstitutedCondition(Drop(s, n), version)

SubstitutedOther(s, version, n) ==
    Slice(s, 1, n) \o SubstitutedCondition(Drop(s, n), version)

SubstitutedCondition(s, version) ==
    IF s = <<>> THEN <<>>
    ELSE IF IsIdentifierCharacter(Head(s))
    THEN SubstitutedIdentifier(s, version, LeadingIdentifier(s))
    ELSE SubstitutedOther(s, version, LeadingOther(s))

\* t starts with the directive name kw, which ends there
DirectiveNamed(t, kw) ==
    /\ StartsWith(t, kw)
    /\ Len(t) = Len(kw) \/ ~IsIdentifierCharacter(t[Len(kw) + 1])

\* the number of characters of line before its condition, or -1 when line is
\* not an #if or #elif line
ConditionStart(line) ==
    IF DirectiveNamed(TrimStart(line), <<"#", "i", "f">>) THEN LeadingWs(line) + 3
    ELSE IF DirectiveNamed(TrimStart(line), <<"#", "e", "l", "i", "f">>)
    THEN LeadingWs(line) + 5
    ELSE -1

\* a line as the specified substitution leaves it
SubstitutedLine(line, version) ==
    IF ConditionStart(line) < 0 THEN line
    ELSE Slice(line, 1, ConditionStart(line))
         \o SubstitutedCondition(Drop(line, ConditionStart(line)), version)

\* a text as the specified substitution leaves it, line by line
RECURSIVE SubstitutedText(_, _)
SubstitutedText(code, version) ==
    IF code = <<>> THEN <<>>
    ELSE SubstitutedLine(Slice(code, 1, LineLen(code)), version)
         \o Slice(code, LineLen(code) + 1, LineAfter(code, 0))
         \o SubstitutedText(Drop(code, LineAfter(code, 0)), version)

\* C30: the text handed to the declaration initializer is the source with
\* whole-word GL_ES replaced by SHADERBG and whole-word __VERSION__ by the
\* digits of the version in the conditions of its #if and #elif lines, and
\* with every other line and every other character unchanged.
C30_OnlyConditionsSubstituted ==
    pc = "substituted" => raw = SubstitutedText(conv.source, conv.version)

\* every #if and #elif line of code has whitespace and then a condition after
\* the directive name
ConditionsFollow(code) ==
    \A k \in DOMAIN Lines(code) :
        ConditionStart(Lines(code)[k]) >= 0 =>
           /\ Drop(Lines(code)[k], ConditionStart(Lines(code)[k])) # <<>>
           /\ IsWhitespace(Lines(code)[k][ConditionStart(Lines(code)[k]) + 1])
           /\ Trim(Drop(Lines(code)[k], ConditionStart(Lines(code)[k]))) # <<>>

\* the substitution is the specified one when whitespace and a condition
\* follow every #if and #elif
SubstitutionWhenConditionsFollow ==
    (pc = "substituted" /\ ConditionsFollow(conv.source)) =>
       raw = SubstitutedText(conv.source, conv.version)

\* a condition has been substituted as specified and a #define line left alone
ConditionSubstituted ==
    /\ pc = "substituted"
    /\ conv.version = <<3, 0>>
    /\ conv.source = <<"#", "e", "l", "i", "f", " ", "_", "_", "V", "E", "R", "S", "I", "O", "N", "_",
         "_", ">", "=", "3", "0", "0", "\n", "#", "d", "e", "f", "i", "n", "e", " ", "V",
         " ", "_", "_", "V", "E", "R", "S", "I", "O", "N", "_", "_">>
    /\ raw = <<"#", "e", "l", "i", "f", " ", "3", "0", "0", ">", "=", "3", "0", "0", "\n", "#",
         "d", "e", "f", "i", "n", "e", " ", "V", " ", "_", "_", "V", "E", "R", "S", "I",
         "O", "N", "_", "_">>

\* the line of code after an #if without a condition has been substituted
CodeLineSubstituted ==
    /\ pc = "substituted"
    /\ conv.version = <<4, 2>>
    /\ conv.source = <<"#", "i", "f", "\n", "x", "=", "G", "L", "_", "E", "S", "+", "_", "_", "V", "E",
         "R", "S", "I", "O", "N", "_", "_", ";">>
    /\ raw = <<"#", "i", "f", "\n", "x", "=", "S", "H", "A", "D", "E", "R", "B", "G", "+", "4",
         "2", "0", ";">>

\* a condition in parentheses right after #if has not been substituted
ConditionNotSubstituted ==
    /\ pc = "substituted"
    /\ conv.source = <<"#", "i", "f", "(", "G", "L", "_", "E", "S", ")">>
    /\ raw = conv.source

(***************************************************************************)
(* The branch stack and the accumulation buffer                            *)
(***************************************************************************)
\* every entry of stack is Active
AllActive(stack) == \A i \in 1..Len(stack) : stack[i] = "Active"

\* C38: when the top of the branch stack is Active every entry below it is
\* Active, so is_active(), which looks at the top alone, is true exactly
\* when every open conditional block is in its active branch.
C38_ActiveTopMeansAllActive ==
    /\ if_stack # <<>> /\ if_stack[Len(if_stack)] = "Active" => AllActive(if_stack)
    /\ IsActive(if_stack) <=> AllActive(if_stack)

\* a block nested in an active block has entered its active branch at an
\* #elif or #else line
C38_Witness ==
    /\ pc = "scan"
    /\ Len(if_stack) = 2
    /\ AllActive(if_stack)
    /\ prev_stack = <<"Active", "Searching">>
    /\ line_number >= 4

\* C39: whenever the accumulation buffer is not empty the branch is active,
\* and a directive line read with a non-empty buffer has the buffer expanded
\* into the output and emptied before the directive acts (or the expansion
\* does not return), so that no buffered line outlives a directive.
C39_BufferOnlyWhenActive ==
    /\ [](active_buffer # <<>> /\ pc = "scan" => IsActive(if_stack))
    /\ [][(pc = "scan" /\ active_buffer # <<>> /\ IsDirectiveLine(loop_line'))
             => \/ pc' = "hung"
                \/ /\ active_buffer' = <<>>
                   /\ output' # output]_vars

\* a directive read with a non-empty buffer has flushed it and has made the
\* branch inactive
C39_Witness ==
    /\ pc = "scan"
    /\ IsDirectiveLine(loop_line)
    /\ IsActive(prev_stack)
    /\ ~IsActive(if_stack)
    /\ Len(kept) >= 1
    /\ output # <<>>
    /\ active_buffer = <<>>

(***************************************************************************)
(* Conditions with a bitwise operator and an equality                      *)
(***************************************************************************)
\* one bit of a bitwise operator
BitOf(op, x, y) ==
    CASE op = "&" -> IF x = 1 /\ y = 1 THEN 1 ELSE 0
      [] op = "|" -> IF x = 1 \/ y = 1 THEN 1 ELSE 0
      [] op = "^" -> IF x # y THEN 1 ELSE 0

\* a op b for naturals a and b, bit by bit
RECURSIVE BitwiseOf(_, _, _)
BitwiseOf(op, a, b) ==
    IF a = 0 /\ b = 0 THEN 0
    ELSE BitOf(op, a % 2, b % 2) + 2 * BitwiseOf(op, a \div 2, b \div 2)

\* the text  a op b == c
BitwiseEquality(a, op, b, c) ==
    Numeral(a) \o <<op>> \o Numeral(b) \o <<"=", "=">> \o Numeral(c)

\* C33: the conditions a & b == c, a | b == c and a ^ b == c are true exactly
\* when the bitwise result of a and b equals c.
C33_BitwiseResultCompared ==
    pc = "evaluated" =>
       \A a \in 0..MaxNumber, b \in 0..MaxNumber, c \in 0..MaxNumber,
          op \in {"&", "|", "^"} :
          raw = BitwiseEquality(a, op, b, c) =>
             (result.value <=> BitwiseOf(op, a, b) = c)

\* a & b == c is true exactly when a & b equals c; a | b == c and a ^ b == c
\* are true exactly when a | (b == c) and a ^ (b == c) are not zero
BitwiseAsParsed ==
    pc = "evaluated" =>
       \A a \in 0..MaxNumber, b \in 0..MaxNumber, c \in 0..MaxNumber :
          /\ raw = BitwiseEquality(a, "&", b, c) =>
                (result.value <=> BitwiseOf("&", a, b) = c)
          /\ \A op \in {"|", "^"} :
                raw = BitwiseEquality(a, op, b, c) =>
                   (result.value <=> BitwiseOf(op, a, IF b = c THEN 1 ELSE 0) # 0)

\* 1 | 0 == 0 has been evaluated, and is true
OrComparedFirst ==
    /\ pc = "evaluated"
    /\ raw = BitwiseEquality(1, "|", 0, 0)
    /\ result.value

\* 2 & 2 == 2 has been evaluated, and is true
AndAppliedFirst ==
    /\ pc = "evaluated"
    /\ raw = BitwiseEquality(2, "&", 2, 2)
    /\ result.value

(***************************************************************************)
(* The list of modifications                                               *)
(***************************************************************************)
\* the modifications are in source order and apart from one another
OrderedAndDisjoint(modifications, length) ==
    \A k \in DOMAIN modifications :
        /\ 0 <= modifications[k].start
        /\ modifications[k].start <= modifications[k].end
        /\ modifications[k].end <= length
        /\ k < Len(modifications) => modifications[k].end < modifications[k + 1].start

\* source from offset from on, every range of modifications replaced by its
\* text at once
RECURSIVE Simultaneous(_, _, _)
Simultaneous(source, modifications, from) ==
    IF modifications = <<>> THEN Drop(source, from)
    ELSE Slice(source, from + 1, Head(modifications).start)
         \o Head(modifications).text
         \o Simultaneous(source, Tail(modifications), Head(modifications).end)

\* C40: the modifications a scan records are in source order and pairwise
\* disjoint (each start is at most its end, each end is below the start of
\* the next), so applying them from the last to the first gives the text
\* that replacing all their ranges of the original at once gives.
C40_ModificationsOrderedAndDisjoint ==
    pc \in {"scan", "initialized"} =>
       /\ OrderedAndDisjoint(scan.modifications, Len(raw))
       /\ ApplyModifications(raw, scan.modifications)
             = Simultaneous(raw, scan.modifications, 0)

\* a scan has ended with three modifications, which made the text longer
C40_Witness ==
    /\ pc = "initialized"
    /\ Len(scan.modifications) = 3
    /\ Len(ApplyModifications(raw, scan.modifications)) > Len(raw)

(***************************************************************************)
(* The array specifier of the type                                         *)
(***************************************************************************)
\* the array specifier that starts the declarators written after a type: the
\* characters up to the first one that is no bracket and no digit
TypeSpecifier(written) ==
    Slice(written, 1, LeadingIn(written, Digits \cup {"[", "]"}))

\* the declarator d of a declaration of the type t with the array specifier
\* spec, as it is to be returned
EffectiveRewrittenAs(d, t, spec, dflt, returned) ==
    IF d = <<>> \/ HasValue(d) \/ ~PositiveLiterals(spec \o d) \/ ~dflt.some THEN TRUE
    ELSE returned = d \o <<" ", "=", " ">>
                    \o NestedConstructor(t, Sizes(Dimensions(spec \o d)), dflt.text)

\* the modification m gives every declarator after the first the initializer
\* of the type t with the array specifier spec the declaration starts with
EffectiveTypeForAll(m, t, spec) ==
    /\ Len(Declarators(m.text)) = Len(Declarators(Slice(raw, m.start + 1, m.end)))
    /\ \A j \in 2..Len(Declarators(m.text)) :
          EffectiveRewrittenAs(Declarators(Slice(raw, m.start + 1, m.end))[j], t, spec,
                               ScalarOrStructDefault(t, scan.struct_defs),
                               Declarators(m.text)[j])

\* C37: in a declaration T[N] a, b every declarator has the effective type
\* T[N], merged with the array specifier of the declarator itself, and a
\* declarator without value is given the array initializer of that type.
C37_TypeSpecifierForEveryDeclarator ==
    \A k \in DOMAIN scan.modifications :
       (/\ TypeBefore(raw, scan.modifications[k].start) \in BUILT_IN_TYPES
        /\ raw[scan.modifications[k].start + 1] = "[")
       => EffectiveTypeForAll(scan.modifications[k],
                              TypeBefore(raw, scan.modifications[k].start),
                              TypeSpecifier(Slice(raw, scan.modifications[k].start + 1,
                                                  scan.modifications[k].end)))

\* int[2] c, e; was returned with an array for c and a scalar for e
SecondDeclaratorIsAScalar ==
    /\ raw = <<"i", "n", "t", "[", "2", "]", " ", "c", ",", " ", "e", ";", "\n">>
    /\ pc = "initialized"
    /\ result[1] = <<"i", "n", "t", "[", "2", "]", " ", "c", " ", "=", " ", "i", "n", "t", "[", "2",
         "]", "(", "0", ",", " ", "0", ")", ",", " ", "e", " ", "=", " ", "0", ";">>

(***************************************************************************)
(* The parts of a for header                                               *)
(***************************************************************************)
\* the '(' at s[p] opens the header of a for loop
OpensForHeader(s, p) ==
    /\ p >= 4
    /\ s[p] = "("
    /\ SubSeq(s, p - 3, p - 1) = KwFor
    /\ p = 4 \/ ~IsIdentifierCharacter(s[p - 4])

\* the header opened at s[p] is not closed by any of s[p..i]
HeaderOpen(s, p, i) ==
    /\ p <= i
    /\ \A q \in p..i : CountIn(s, "(", p, q) > CountIn(s, ")", p, q)

\* after the first i bytes of s the part of a for header is n: 1 up to the
\* first ';' of the header, 2 up to the second, 3 up to the ')' that
\* closes the header, and 0 outside a header
PartIs(s, i, n) ==
    \/ \E p \in 1..i :
          /\ OpensForHeader(s, p)
          /\ HeaderOpen(s, p, i)
          /\ n = 1 + CountIn(s, ";", p, i)
    \/ /\ \A p \in 1..i : ~(OpensForHeader(s, p) /\ HeaderOpen(s, p, i))
       /\ n = 0

\* the part depth_tracker is in
TrackedPart == IF tracker.for_loop_depth > 0 THEN tracker.for_loop_part ELSE 0

\* C34: during the scan the tracker is in the initialization part exactly
\* from the '(' of a for header to its first ';', in the condition part up to
\* the second ';', in the increment part up to the ')' that closes the
\* header, and in no part outside a header, whether or not the declaration of
\* the initialization part was rewritten.
C34_ForPartsFollowTheHeader ==
    (pc = "scan" /\ scan.state = "Normal") =>
       /\ PartIs(raw, scan.i, TrackedPart)
       /\ InForLoopInitialization(tracker) <=> PartIs(raw, scan.i, 1)

\* the source is one for loop
OneForLoop == Len(Lines(raw)) = 1 /\ StartsWith(raw, KwFor \o <<"(">>)

\* the same as long as the scan of a source that is one for loop has recorded
\* no modification
PartsFollowUntilRewritten ==
    (pc = "scan" /\ scan.state = "Normal" /\ OneForLoop /\ scan.modifications = <<>>) =>
       /\ PartIs(raw, scan.i, TrackedPart)
       /\ InForLoopInitialization(tracker) <=> PartIs(raw, scan.i, 1)

\* the scan of for(int i; i<2;) is past the first ';', which it jumped, and
\* the tracker is in the initialization part
ConditionTakenForInitialization ==
    /\ pc = "scan"
    /\ raw = <<"f", "o", "r", "(", "i", "n", "t", " ", "i", ";", " ", "i", "<", "2", ";", ")",
         " ", "f", "(", "v", "e", "c", "4", "(", "1", ")", ")", ";", "\n">>
    /\ scan.i = 12
    /\ Len(scan.modifications) = 1
    /\ InForLoopInitialization(tracker)

\* the scan of for(int k=0; k<2; k++) is in the increment part, and so is the
\* tracker
IncrementPartTracked ==
    /\ pc = "scan"
    /\ raw = <<"f", "o", "r", "(", "i", "n", "t", " ", "k", "=", "0", ";", " ", "k", "<", "2",
         ";", " ", "k", "+", "+", ")", " ", "{", "}", "\n">>
    /\ scan.i = 19
    /\ TrackedPart = 3

(***************************************************************************)
(* Type names inside parentheses and square brackets                       *)
(***************************************************************************)
\* the first i bytes of s end inside parentheses or square brackets
Enclosed(s, i) == Unclosed(s, 1, i, "(", ")") \/ Unclosed(s, 1, i, "[", "]")

\* C35: a type name inside parentheses or square brackets causes a
\* modification only in the initialization part of a for header, and an
\* uninitialized declaration in the initialization part of a for header
\* receives its default initializer.
C35_EnclosedTypesOnlyInForInitialization ==
    /\ pc \in {"scan", "initialized"} =>
          \A k \in 1..Len(scan.modifications) :
             Enclosed(raw, scan.modifications[k].start) =>
                PartIs(raw, scan.modifications[k].start, 1)
    /\ (pc = "initialized" /\ OneForLoop /\ raw[9] = "i" /\ raw[10] = ";") =>
          StartsWith(result[1], <<"f", "o", "r", "(", "i", "n", "t", " ", "i", " ", "=", " ", "0", ";">>)

\* the same for the sources that have no for header
EnclosedTypesWithoutForHeaders ==
    (pc \in {"scan", "initialized"} /\ ~Contains(raw, KwFor \o <<"(">>)) =>
       \A k \in 1..Len(scan.modifications) :
          Enclosed(raw, scan.modifications[k].start) =>
             PartIs(raw, scan.modifications[k].start, 1)

\* the j of the condition part of for(int i; int(i)<2, j;) was given an
\* initializer
ConditionPartInitialized ==
    /\ pc = "initialized"
    /\ raw = <<"f", "o", "r", "(", "i", "n", "t", " ", "i", ";", " ", "i", "n", "t", "(", "i",
         ")", "<", "2", ",", " ", "j", ";", ")", " ", "{", "}", "\n">>
    /\ result[1] = <<"f", "o", "r", "(", "i", "n", "t", " ", "i", " ", "=", " ", "0", ";", " ", "i",
         "n", "t", "(", "i", ")", "<", "2", ",", " ", "j", " ", "=", " ", "0", ";", ")",
         " ", "{", "}">>

\* the argument of the call in for(int i; i<2;) f(vec4(1)); caused no
\* modification, the declaration of the initialization part did
CallArgumentUnmodified ==
    /\ pc = "initialized"
    /\ raw = <<"f", "o", "r", "(", "i", "n", "t", " ", "i", ";", " ", "i", "<", "2", ";", ")",
         " ", "f", "(", "v", "e", "c", "4", "(", "1", ")", ")", ";", "\n">>
    /\ result[1] = <<"f", "o", "r", "(", "i", "n", "t", " ", "i", " ", "=", " ", "0", ";", " ", "i",
         "<", "2", ";", ")", " ", "f", "(", "v", "e", "c", "4", "(", "1", ")", ")", ";">>

(***************************************************************************)
(* Function declarations and definitions at global scope                   *)
(***************************************************************************)
\* the offset after the ')' that matches the '(' at s[o], 0 if there is none
MatchingClose(s, o) ==
    IF \E q \in o..Len(s) : CountIn(s, "(", o, q) = CountIn(s, ")", o, q)
    THEN Least({q \in o..Len(s) : CountIn(s, "(", o, q) = CountIn(s, ")", o, q)})
    ELSE 0

\* the offset after the parameter list of the signature whose name starts at
\* the offset p of s, 0 if no signature starts there: a type token and
\* whitespace before p, an identifier at p, a balanced parenthesised list and
\* then ';' or '{', all of it at global scope
SignatureEnd(s, p) ==
    LET name == p + LeadingIn(Drop(s, p), Letters \cup Digits \cup {"_"})
        open == name + LeadingWs(Drop(s, name)) + 1
        close == MatchingClose(s, open)
        next == close + LeadingWs(Drop(s, close)) + 1
    IN  IF /\ p >= 2
           /\ p < Len(s)
           /\ IsWhitespace(s[p])
           /\ TrailingWs(Slice(s, 1, p)) < p
           /\ IsIdentifierCharacter(s[p - TrailingWs(Slice(s, 1, p))])
           /\ IsIdentifierStart(s[p + 1])
           /\ TextAtGlobalScope(s, 1, p)
           /\ open <= Len(s)
           /\ s[open] = "("
           /\ close > 0
           /\ next <= Len(s)
           /\ s[next] \in {";", "{"}
        THEN close
        ELSE 0

\* no modification starts at the name of a signature or in its parameters
SignaturesUnmodified ==
    \A p \in 1..Len(raw) :
       SignatureEnd(raw, p) > 0 =>
          \A k \in 1..Len(scan.modifications) :
             \/ scan.modifications[k].end <= p
             \/ scan.modifications[k].start >= SignatureEnd(raw, p)

PrototypeKept ==
    /\ pc = "initialized"
    /\ raw = <<"i", "n", "t", " ", "h", "(", "i", "n", "t", " ", "a", ")", ";", "\n", "f", "l",
         "o", "a", "t", " ", "a", ",", " ", "b", "=", "1", ".", "0", ";", "\n">>
    /\ SignatureEnd(raw, 4) = 12
    /\ result[1] = <<"i", "n", "t", " ", "h", "(", "i", "n", "t", " ", "a", ")", ";", "\n", "f", "l",
         "o", "a", "t", " ", "a", " ", "=", " ", "0", ".", "0", ",", " ", "b", "=", "1",
         ".", "0", ";">>

(***************************************************************************)
(* Constructs that have no end                                             *)
(***************************************************************************)
\* s has a word struct that only whitespace follows
StructAtEnd(s) ==
    \E p \in 0..(Len(s) - Len(KwStruct)) :
       /\ WholeWordAt(s, KwStruct, p)
       /\ LeadingWs(Drop(s, p + Len(KwStruct))) = Len(s) - p - Len(KwStruct)

\* C32: initialize_uninitialized_variables never fails on a construct that
\* has no end (a block comment, a string, the keyword struct at the end of the
\* input, a struct body, a declaration with no ';'): the scan never aborts and
\* never goes beyond the end of the source.
C32_UnterminatedNeverFails ==
    /\ pc # "panic"
    /\ pc = "scan" => scan.i <= Len(raw)

\* the same for the sources that have no word struct that only whitespace
\* follows
NeverFailsUnlessStructAtEnd ==
    ~StructAtEnd(raw) =>
       /\ pc # "panic"
       /\ pc = "scan" => scan.i <= Len(raw)

\* parse_struct_definition read the byte after the end of the source struct
StructAtEndPanicked ==
    /\ pc = "panic"
    /\ raw = <<"s", "t", "r", "u", "c", "t", "\n">>

\* a source that ends in a struct body with no end was returned with the
\* declaration before it rewritten
UnterminatedBodyReturned ==
    /\ pc = "initialized"
    /\ raw = <<"f", "l", "o", "a", "t", " ", "a", ",", " ", "b", "=", "1", ".", "0", ";", "\n",
         "s", "t", "r", "u", "c", "t", " ", "V", " ", "{", " ", "i", "n", "t", " ", "n",
         ";">>
    /\ Len(scan.modifications) = 1

\* a source that ends in a string with no end was returned
UnterminatedStringReturned ==
    /\ pc = "initialized"
    /\ raw = <<"i", "n", "t", " ", "h", "(", "i", "n", "t", " ", "a", ")", ";", "\n", "\"", "b">>
    /\ scan.state = "InString"

(***************************************************************************)
(* The iteration order of the macro mapping                                *)
(***************************************************************************)
\* the defined names that match the buffer at the offset p as a whole word
WholeWordsAt(line, defs, p) == {name \in DOMAIN defs : WholeWordAt(line, name, p)}

\* a pass of expand_macros gives the same buffer whatever the order the
\* mapping is iterated in
SamePassInEveryOrder(line, defs) ==
    \A o1 \in IterationOrders(DOMAIN defs) : \A o2 \in IterationOrders(DOMAIN defs) :
       ExpandPass(line, defs, o1) = ExpandPass(line, defs, o2)

====
